---- MODULE Spec2Model ----
(***************************************************************************)
(* The diff-to-review pipeline of the code review backend:                 *)
(* CodeAnalysisService.analyzeStagedChanges / analyzeCommit                *)
(* (services/codeAnalysisService.js), the AI provider adapter              *)
(* (services/aiService.js, services/llmService.js), the two analyze routes *)
(* (routes/reviews.js) and the CodeReview / CodeIssue tables.              *)
(*                                                                         *)
(* Every request is a Node.js async handler: the code between two awaits   *)
(* runs atomically, so there is one action per await (the awaited call     *)
(* together with the synchronous code that follows it).  Requests          *)
(* interleave at the awaits.                                               *)
(***************************************************************************)
EXTENDS Integers, Sequences, FiniteSets, TLC

VARIABLES
    reviews,    \* CodeReview table: sequence of rows in createdAt order, id = index
    issues,     \* CodeIssue table: set of rows
    run,        \* per HTTP request: position in the handler and its local variables
    dbFaults,   \* database calls that have failed so far
    filesParsed, \* files of all the diffs parsed so far
    issuesParsed, \* issues of all the provider replies parsed so far
    deletedReviews, \* ids of the CodeReview rows that were deleted
    provider,   \* aiService.provider
    switched,   \* the first value of aiService.provider and the number of setProvider calls
    calls,      \* calls of aiService.analyzeCode / generateFix / estimateEffort
    api,        \* the last response of /api/ai/provider
    standards,  \* CodingStandard table: set of rows
    stdRun,     \* per standards API request: its position and local variables
    nextStandardId, \* ids of the CodingStandard rows created so far
    response,   \* the text handed to parseAnalysisResponse
    result,     \* what parseAnalysisResponse returned for it
    fixRun,     \* per request on an issue (resolve, fix): its position and locals
    hook        \* the pre-commit hook process: its position and exit code

\* the pipeline's variables other than the deleted reviews
pipelineVars == <<reviews, issues, run, dbFaults, filesParsed, issuesParsed>>

providerVars == <<provider, switched, calls, api>>

standardVars == <<standards, stdRun, nextStandardId>>

parserVars == <<response, result>>

\* the clients of the reviews: the issue routes and the pre-commit hook
clientVars == <<fixRun, hook>>

\* what the analyze routes and the analysis service leave alone
outsideAnalysis == <<deletedReviews, providerVars, standardVars, parserVars, clientVars>>

vars == <<pipelineVars, deletedReviews, providerVars, standardVars, parserVars, clientVars>>

----------------------------------------------------------------------------
(* Bounds of the model *)

\* the HTTP requests that may be in flight together, in arrival order
RequestOrder == <<"req1", "req2">>

Requests == {RequestOrder[i] : i \in 1..Len(RequestOrder)}

\* (userId, repositoryPath) pairs a request may carry
Keys == <<"u1:/repo", "u2:/repo">>

\* most files in one parsed diff
MaxDiffFiles == 2

\* most files in the diffs of all requests together
MaxTotalFiles == 2

\* most issues in the provider's replies to all requests together
MaxTotalIssues == 2

\* most database calls that fail in one behaviour
MaxDbFaults == 1

----------------------------------------------------------------------------
(* Strings are sequences of characters *)

Whitespace == {" ", "\n", "\t"}

RECURSIVE TrimStart(_)
TrimStart(s) ==
    IF s # <<>> /\ Head(s) \in Whitespace THEN TrimStart(Tail(s)) ELSE s

RECURSIVE TrimEnd(_)
TrimEnd(s) ==
    IF s # <<>> /\ s[Len(s)] \in Whitespace
    THEN TrimEnd(SubSeq(s, 1, Len(s) - 1)) ELSE s

\* String.prototype.trim
Trim(s) == TrimEnd(TrimStart(s))

\* variant: the "+" / " " prefix of a diff line is kept
Substring1KeepsPrefix(s) == s

\* s.substring(1)
Substring1(s) == IF s = <<>> THEN <<>> ELSE Tail(s)

\* lines.join("\n")
RECURSIVE JoinLines(_)
JoinLines(ls) ==
    IF ls = <<>> THEN <<>>
    ELSE IF Len(ls) = 1 THEN ls[1]
    ELSE ls[1] \o <<"\n">> \o JoinLines(Tail(ls))

\* index of the last occurrence of c in s, 0 if there is none
LastIndexOf(s, c) ==
    LET hits == {i \in 1..Len(s) : s[i] = c}
    IN  IF hits = {} THEN 0 ELSE CHOOSE i \in hits : \A j \in hits : j <= i

\* path.extname: from the last "." of the last path segment; "" when there
\* is no "." or the segment starts with its only "."
ExtName(p) ==
    LET slash == LastIndexOf(p, "/")
        base  == SubSeq(p, slash + 1, Len(p))
        dot   == LastIndexOf(base, ".")
    IN  IF dot <= 1 THEN <<>> ELSE SubSeq(base, dot, Len(base))

----------------------------------------------------------------------------
(* The supported-language table *)

supportedExtensions ==
    { <<".","j","s">>, <<".","j","s","x">>, <<".","t","s">>,
      <<".","t","s","x">>, <<".","p","y">>, <<".","j","a","v","a">>,
      <<".","c","p","p">>, <<".","c">>, <<".","c","s">>, <<".","g","o">>,
      <<".","r","b">>, <<".","p","h","p">>, <<".","r","s">> }

\* changedCode.trim().length < 10 is "minimal changes"
MinChangedLength == 10

----------------------------------------------------------------------------
(* Inputs: what git and parse-diff hand to the service *)

Change(t, c) == [type |-> t, content |-> c]

\* a.js, one added line "var x = 1" (9 characters)
FileAJs ==
    [to |-> <<"a",".","j","s">>, deleted |-> FALSE,
     chunks |-> << [newStart |-> 1, changes |-> <<
        Change("add", <<"+","v","a","r"," ","x"," ","="," ","1">>) >>] >>]

\* b.py, a context line, a removed line and an added line
FileBPy ==
    [to |-> <<"b",".","p","y">>, deleted |-> FALSE,
     chunks |-> << [newStart |-> 4, changes |-> <<
        Change("normal", <<" ","d","e","f"," ","f","(",")",":">>),
        Change("del", <<"-"," "," "," "," ","r","e","t","u","r","n"," ","0">>),
        Change("add", <<"+"," "," "," "," ","r","e","t","u","r","n"," ",
                        "c","o","m","p","u","t","e","(","1",")"," "," ">>)
        >>] >>]

\* docs.md, a long added line in an unsupported language
FileDocsMd ==
    [to |-> <<"d","o","c","s",".","m","d">>, deleted |-> FALSE,
     chunks |-> << [newStart |-> 1, changes |-> <<
        Change("add", <<"+","S","o","m","e"," ","l","o","n","g"," ","d","o",
                        "c","u","m","e","n","t","a","t","i","o","n"," ",
                        "l","i","n","e">>) >>] >>]

\* old.js was deleted: parse-diff reports to = /dev/null, deleted = true
FileOldJs ==
    [to |-> <<"/","d","e","v","/","n","u","l","l">>, deleted |-> TRUE,
     chunks |-> << [newStart |-> 0, changes |-> <<
        Change("del", <<"-","v","a","r"," ","o","l","d"," ","="," ","1",";">>)
        >>] >>]

\* z.ts, one added line of 19 characters
FileZTs ==
    [to |-> <<"z",".","t","s">>, deleted |-> FALSE,
     chunks |-> << [newStart |-> 1, changes |-> <<
        Change("add", <<"+","e","x","p","o","r","t"," ","c","o","n","s","t",
                        " ","y"," ","="," ","2",";">>) >>] >>]

\* parsed diffs, each in path order as git lists them: files that are
\* skipped for each of the three reasons, alone, before, between and after
\* files that are analysed
DiffCatalog ==
    { <<FileAJs>>,
      <<FileBPy>>,
      <<FileDocsMd, FileOldJs>>,
      <<FileBPy, FileZTs>>,
      <<FileAJs, FileZTs>>,
      <<FileBPy, FileDocsMd>>,
      <<FileBPy, FileOldJs, FileZTs>>,
      <<FileAJs, FileBPy, FileDocsMd, FileZTs>> }

\* the non-empty parsed diffs of the model
Diffs == {d \in DiffCatalog : Len(d) <= MaxDiffFiles}

----------------------------------------------------------------------------
(* extractChangedCode and the three file filters *)

\* the changedLines of one chunk: added and context lines with their
\* post-change line numbers, "+" / " " prefix removed; deletions skipped
RECURSIVE ChunkLines(_, _)
ChunkLines(changes, lineNumber) ==
    IF changes = <<>> THEN <<>>
    ELSE LET change == Head(changes) IN
         IF change.type = "add" \/ change.type = "normal"
         THEN << [line |-> lineNumber,
                  content |-> Substring1(change.content),
                  type |-> IF change.type = "add" THEN "add" ELSE "context"] >>
              \o ChunkLines(Tail(changes), lineNumber + 1)
         ELSE ChunkLines(Tail(changes), lineNumber)

RECURSIVE ChangedLines(_)
ChangedLines(chunks) ==
    IF chunks = <<>> THEN <<>>
    ELSE LET chunk == Head(chunks)
             start == IF chunk.newStart = 0 THEN 1 ELSE chunk.newStart
         IN  ChunkLines(chunk.changes, start) \o ChangedLines(Tail(chunks))

extractChangedCode(file) ==
    LET changedLines == ChangedLines(file.chunks)
    IN  JoinLines([i \in 1..Len(changedLines) |-> changedLines[i].content])

\* variant: no minimal-length filter
PassesFiltersAnyLength(file) ==
    /\ ~file.deleted
    /\ ExtName(file.to) \in supportedExtensions

\* the file is skipped by none of the three `continue`s of the loop
PassesFilters(file) ==
    /\ ~file.deleted
    /\ ExtName(file.to) \in supportedExtensions
    /\ LET changedCode == extractChangedCode(file)
       IN  ~(changedCode = <<>> \/ Len(Trim(changedCode)) < MinChangedLength)

\* position of the first file at or after i that is analysed, Len + 1 if none
RECURSIVE NextAnalysed(_, _)
NextAnalysed(diff, i) ==
    IF i > Len(diff) THEN i
    ELSE IF PassesFilters(diff[i]) THEN i
    ELSE NextAnalysed(diff, i + 1)

----------------------------------------------------------------------------
(* The AI provider's replies and parseAnalysisResponse *)

IssueFields == {"title", "description", "severity", "category", "line"}

\* one element of the reply's issues array.  `has` are the fields it
\* carries; a string field may be carried and empty (""); isNull is the
\* JSON value null in place of an object
Candidate(title, severity, line, has) ==
    [title |-> title, description |-> "d", severity |-> severity,
     category |-> "bug", line |-> line, lineEnd |-> 0, autoFixable |-> FALSE,
     has |-> has, isNull |-> FALSE]

NullCandidate == [Candidate("", "", 0, {}) EXCEPT !.isNull = TRUE]

\* the recommendations of a reply: for each of the four kinds its list, <<>>
\* if the reply has none or has something that is no array
NoRecommendations ==
    [documentation |-> <<>>, testing |-> <<>>, architecture |-> <<>>, cicd |-> <<>>]

\* a reply: whether it holds a JSON object ("none": no brace pair,
\* "invalid": JSON.parse rejects it), whether `issues` is an array, its
\* elements, the `summary` of the model (<<>> if absent) and its
\* recommendations
Reply(json, issuesIsList, candidates) ==
    [json |-> json, issuesIsList |-> issuesIsList, issues |-> candidates,
     summary |-> <<>>, recommendations |-> NoRecommendations]

\* text without any JSON object
ReplyNoJson == Reply("none", FALSE, <<>>)

\* braces that JSON.parse rejects
ReplyBadJson == Reply("invalid", FALSE, <<>>)

\* {"issues": "none"}
ReplyIssuesNotList == Reply("object", FALSE, <<>>)

\* one MINOR issue at line 1
ReplyMinorLine1 ==
    Reply("object", TRUE, << Candidate("t1", "MINOR", 1, IssueFields) >>)

\* a CRITICAL issue and an INFO issue whose line is 0
ReplyCriticalInfo ==
    Reply("object", TRUE, << Candidate("t2", "CRITICAL", 3, IssueFields),
                             Candidate("t3", "INFO", 0, IssueFields) >>)

\* a MAJOR issue, an issue without severity, and one whose severity is not
\* a value of the IssueSeverity enum
ReplyMajorMixed ==
    Reply("object", TRUE,
          << Candidate("t4", "MAJOR", 2, IssueFields),
             Candidate("t5", "MINOR", 6, IssueFields \ {"severity"}),
             Candidate("t6", "LOW", 5, IssueFields) >>)

ReplyCatalog ==
    { ReplyNoJson, ReplyBadJson, ReplyIssuesNotList, ReplyMinorLine1,
      ReplyCriticalInfo, ReplyMajorMixed }

\* the result for a response without usable JSON
EmptyResult ==
    [issues |-> <<>>,
     summary |-> [critical |-> 0, major |-> 0, minor |-> 0, info |-> 0],
     recommendations |-> NoRecommendations,
     raised |-> FALSE]

\* what leaves a function as an exception
Raised == [EmptyResult EXCEPT !.raised = TRUE]

\* issue.title && issue.description && issue.severity && issue.category &&
\* issue.line !== undefined
IsValidIssue(issue) ==
    /\ "title" \in issue.has /\ issue.title # ""
    /\ "description" \in issue.has /\ issue.description # ""
    /\ "severity" \in issue.has /\ issue.severity # ""
    /\ "category" \in issue.has /\ issue.category # ""
    /\ "line" \in issue.has

\* the .map of validIssues: line || 1, lineEnd || line || 1,
\* Boolean(autoFixable)
NormalizedIssue(issue) ==
    [line        |-> IF issue.line = 0 THEN 1 ELSE issue.line,
     lineEnd     |-> IF "lineEnd" \in issue.has /\ issue.lineEnd # 0
                     THEN issue.lineEnd
                     ELSE IF issue.line # 0 THEN issue.line ELSE 1,
     severity    |-> issue.severity,
     category    |-> issue.category,
     title       |-> issue.title,
     description |-> issue.description,
     autoFixable |-> "autoFixable" \in issue.has /\ issue.autoFixable]

\* parsed.summary || the counts of validIssues by severity
SummaryOf(reply, validIssues) ==
    IF reply.summary # <<>> THEN reply.summary[1]
    ELSE LET Of(sev) == Len(SelectSeq(validIssues, LAMBDA i : i.severity = sev))
         IN  [critical |-> Of("CRITICAL"), major |-> Of("MAJOR"),
              minor |-> Of("MINOR"), info |-> Of("INFO")]

\* the try block of parseAnalysisResponse: reading a property of null
\* raises, as does JSON.parse of invalid JSON
TryParse(reply) ==
    IF reply.json = "none" THEN EmptyResult
    ELSE IF reply.json = "invalid" THEN Raised
    ELSE LET list == IF reply.issuesIsList THEN reply.issues ELSE <<>>
         IN  IF \E i \in 1..Len(list) : list[i].isNull THEN Raised
             ELSE LET kept == SelectSeq(list, IsValidIssue)
                      validIssues == [i \in 1..Len(kept) |-> NormalizedIssue(kept[i])]
                  IN  [issues |-> validIssues,
                       summary |-> SummaryOf(reply, validIssues),
                       recommendations |-> reply.recommendations,
                       raised |-> FALSE]

\* variant: no catch around the parsing
parseAnalysisResponseUncaught(reply) == TryParse(reply)

\* LLMService.parseAnalysisResponse and GeminiService.parseAnalysisResponse
\* (the same code): the catch returns the empty result
parseAnalysisResponse(reply) ==
    LET parsed == TryParse(reply)
    IN  IF parsed.raised THEN EmptyResult ELSE parsed

\* analysis.analysis.issues of the provider's reply
ParsedIssues(reply) == parseAnalysisResponse(reply).issues

\* the ways aiService.analyzeCode raises: the health check reports status
\* "error", or service.analyzeCode fails in transport
AnalyzeErrors == {"health_error", "transport_error"}

----------------------------------------------------------------------------
(* The tables *)

ReviewStatus == {"PENDING", "IN_PROGRESS", "COMPLETED", "FAILED"}

IssueSeverity == {"CRITICAL", "MAJOR", "MINOR", "INFO"}

\* prisma.codeReview.create({data: {userId, repositoryPath, branch,
\* commitHash?, status}}): the other columns take their defaults
NewReview(key, commitHash, status) ==
    [key |-> key, commitHash |-> commitHash, status |-> status,
     filesAnalyzed |-> 0, issuesFound |-> 0, criticalIssues |-> 0,
     majorIssues |-> 0, minorIssues |-> 0, estimatedEffort |-> 0,
     recommendations |-> <<>>]   \* null, or the one JSON value stored

\* the data of prisma.codeIssue.create for one parsed issue of a file
IssueData(reviewId, file, issue) ==
    [id         |-> <<reviewId, Cardinality({x \in issues : x.reviewId = reviewId}) + 1>>,
     reviewId   |-> reviewId,
     filePath   |-> file.to,
     lineNumber |-> IF issue.line = 0 THEN 1 ELSE issue.line,
     lineEnd    |-> issue.lineEnd,
     severity   |-> issue.severity,
     title      |-> issue.title,
     description |-> issue.description,
     autoFixable |-> issue.autoFixable,
     effort     |-> 0,
     resolved   |-> FALSE,     \* the column's default
     fixCode    |-> ""]        \* null

\* the database accepts the row: the severity is a value of the enum
IssueAccepted(data) == data.severity \in IssueSeverity

\* variant: every issue counts for every severity
CountSeverityUnfiltered(allIssues, sev) == Len(allIssues)

\* allIssues.filter((i) => i.severity === sev).length
CountSeverity(allIssues, sev) ==
    Len(SelectSeq(allIssues, LAMBDA i : i.severity = sev))

\* variant: the database does not check the review of an issue
ReviewExistsAlways(id) == TRUE

\* the CodeReview row of the id is in the table
ReviewExists(id) == id \notin deletedReviews

\* findFirst({where: {userId, repositoryPath}, orderBy: {createdAt: "desc"}}):
\* the id of the newest review of the key, 0 if there is none
LatestReview(key) ==
    LET ids == {id \in 1..Len(reviews) : reviews[id].key = key /\ ReviewExists(id)}
    IN  IF ids = {} THEN 0 ELSE CHOOSE id \in ids : \A other \in ids : other <= id

----------------------------------------------------------------------------
(* The provider setting of the AI service *)

\* the values setProvider accepts
ValidProviders == {"ollama", "gemini"}

\* the `provider` of a request body: missing (""), valid, or another string
ProviderInputs == {"", "ollama", "gemini", "openai"}

\* most changes of aiService.provider in one behaviour
MaxSwitches == 2

\* variant: the routes accept any provider name
IsValidProviderAny(p) == TRUE

\* ["ollama", "gemini"].includes(provider)
IsValidProvider(p) == p \in ValidProviders

\* AIService.getService
getService(p) == IF p = "gemini" THEN "geminiService" ELSE "llmService"

\* AIService.setProvider for a value the caller has validated
setProvider(p) ==
    /\ switched.times < MaxSwitches
    /\ provider' = p
    /\ switched' = [switched EXCEPT !.times = @ + 1]

----------------------------------------------------------------------------
(* The requests *)

IdleRun ==
    [pc |-> "idle",          \* the await the handler is suspended at
     kind |-> "none",        \* "staged" (analyze-staged) or "commit" (analyze-commit)
     key |-> "none",         \* userId and repositoryPath of the body
     bodyProvider |-> "",    \* provider of the body, "" if it has none
     service |-> "none",     \* the service of the aiService call in flight
     servedBy |-> {},        \* the services the aiService calls of the run went to
     responseProvider |-> "none", \* provider of the 200 response
     recommendations |-> NoRecommendations, \* allRecommendations
     fileRecommendations |-> <<>>, \* the positions and recommendations of
                             \* the files analyzeCode returned for
     review |-> 0,           \* review.id, 0 before prisma.codeReview.create
     diff |-> <<>>,          \* parsedDiff
     idx |-> 0,              \* position of `file` in parsedDiff
     filesAnalyzed |-> 0,
     sent |-> <<>>,          \* positions of the files handed to aiService.analyzeCode
     aiFailed |-> {},        \* positions of the files whose analyzeCode call raised
     pending |-> <<>>,       \* analysis.analysis.issues not yet written
     allIssues |-> <<>>,     \* the savedIssue rows, in order
     rejected |-> <<>>,      \* file and title of the issues whose create raised
     estimateCalls |-> 0,    \* calls of aiService.estimateEffort
     estimatedEffort |-> 0,  \* in half hours
     handlerOk |-> TRUE,     \* the catch block's own database calls succeeded
     existingReview |-> 0,   \* existingReview.id of the catch block
     error |-> "none",       \* the Error that was thrown
     http |-> 0]             \* status of the response, 0 before it is sent

\* empty tables, no request received yet
InitAnalysis ==
    /\ reviews = <<>>
    /\ issues = {}
    /\ run = [rq \in Requests |-> IdleRun]
    /\ dbFaults = 0
    /\ filesParsed = 0
    /\ issuesParsed = 0
    /\ deletedReviews = {}

\* the outcomes of one database call that the code guards: it succeeds, or
\* it raises
DbOutcomes == IF dbFaults < MaxDbFaults THEN {TRUE, FALSE} ELSE {TRUE}

\* dbFaults after a database call with outcome dbOk
Faults(dbOk) == IF dbOk THEN dbFaults ELSE dbFaults + 1

\* the handler has returned: its local variables are gone; what stays is
\* the request, its review, the response (a 200 response carries
\* aiService.getProvider()) and which provider calls failed
Finished(rr, error, http) ==
    [IdleRun EXCEPT !.pc = "done", !.kind = rr.kind, !.key = rr.key,
                    !.bodyProvider = rr.bodyProvider,
                    !.servedBy = IF http = 200 THEN rr.servedBy ELSE {},
                    !.responseProvider = IF http = 200 THEN provider ELSE "none",
                    !.review = rr.review, !.aiFailed = rr.aiFailed,
                    !.estimateCalls = rr.estimateCalls,
                    !.handlerOk = rr.handlerOk,
                    !.error = error, !.http = http]

\* the route's catch: res.status(500).json({error: error.message})
Respond500(rr, error) == Finished(rr, error, 500)

\* `throw` inside the service's outer try: analyzeStagedChanges enters its
\* catch block (first await: findFirst); analyzeCommit logs and rethrows,
\* and the route answers 500
Throw(rr, error) ==
    IF rr.kind = "staged"
    THEN [rr EXCEPT !.pc = "catch", !.error = error]
    ELSE Respond500(rr, error)

\* the synchronous code from the top of the loop body for position i up to
\* the next await: skip the filtered files; then either hand the next file
\* to aiService.analyzeCode, or leave the loop towards the FAILED update,
\* the effort estimate or the final update.  A call of aiService reads
\* this.getService() before its first await
Advance(rr, i) ==
    LET j == NextAnalysed(rr.diff, i) IN
    IF j <= Len(rr.diff)
    THEN [rr EXCEPT !.idx = j, !.filesAnalyzed = @ + 1,
                    !.sent = Append(@, j), !.pc = "analyze",
                    !.service = getService(provider)]
    ELSE [rr EXCEPT !.idx = j,
                    !.pc = IF rr.filesAnalyzed = 0 THEN "nofiles"
                           ELSE IF Len(rr.allIssues) > 0 THEN "estimate"
                           ELSE "complete",
                    !.service = IF rr.filesAnalyzed # 0 /\ Len(rr.allIssues) > 0
                                THEN getService(provider) ELSE @]

\* user ids and paths are opaque values: a request names a pair that an
\* earlier request named, or the next new one
KeyChoices ==
    LET used == {i \in 1..Len(Keys) : \E rq \in Requests : run[rq].key = Keys[i]}
    IN  {Keys[i] : i \in {j \in 1..Len(Keys) : j <= Cardinality(used) + 1}}

\* if (!repositoryPath || !userId), if (!repositoryPath || !commitHash ||
\* !userId)
RequiredFields(kind) ==
    IF kind = "staged" THEN {"repositoryPath", "userId"}
    ELSE {"repositoryPath", "commitHash", "userId"}

\* the fields a request body lacks
MissingChoices == {{}, {"repositoryPath"}, {"userId"}, {"commitHash"}}

\* variant: a body names no other provider
ShouldSwitchNever(p) == FALSE

\* if (provider && provider !== currentProvider)
ShouldSwitch(p) == p # "" /\ p # provider

\* the 400 of the analyze routes: required fields first, then the provider
Refused(complete, p) ==
    IF ~complete THEN "required_fields"
    ELSE IF ShouldSwitch(p) /\ ~IsValidProvider(p) THEN "invalid_provider"
    ELSE "none"

\* variant: the provider is switched before the required fields are checked
SwitchesUnchecked(complete, p) == ShouldSwitch(p) /\ IsValidProvider(p)

\* the request reaches aiService.setProvider(provider)
Switches(complete, p) == Refused(complete, p) = "none" /\ ShouldSwitch(p)

\* POST /api/reviews/analyze-staged and /analyze-commit (`kinds`) with a
\* body that lacks one of `lacks` and whose provider is one of
\* `providers`: validate the body, switch the provider if the body names
\* another one, then call the service up to its first await
ReceiveRequestFrom(rq, kinds, lacks, providers) ==
    /\ run[rq].pc = "idle"
    /\ \A i, j \in 1..Len(RequestOrder) :
         i < j /\ RequestOrder[j] = rq => run[RequestOrder[i]].pc # "idle"
    /\ \E kind \in kinds, key \in KeyChoices, missing \in lacks, p \in providers :
         LET complete == missing \cap RequiredFields(kind) = {} IN
         /\ run' = [run EXCEPT ![rq] =
                      IF Refused(complete, p) # "none"
                      THEN Finished([@ EXCEPT !.kind = kind, !.bodyProvider = p],
                                    Refused(complete, p), 400)
                      ELSE [@ EXCEPT !.kind = kind, !.key = key,
                                     !.bodyProvider = p,
                                     !.pc = IF kind = "staged" THEN "status"
                                            ELSE "show"]]
         /\ IF Switches(complete, p) THEN setProvider(p)
            ELSE UNCHANGED <<provider, switched>>
    /\ UNCHANGED <<reviews, issues, dbFaults, filesParsed, issuesParsed>>
    /\ UNCHANGED <<deletedReviews, calls, api, standardVars, parserVars, clientVars>>

\* a request of either kind
ReceiveRequestWith(rq, providers) ==
    ReceiveRequestFrom(rq, {"staged", "commit"}, MissingChoices, providers)

\* a request whose body names no provider
ReceiveRequest(rq) == ReceiveRequestWith(rq, {""})

\* await git.status(), and the "no changes" check
GitStatus(rq) ==
    /\ run[rq].pc = "status"
    /\ \E staged \in 0..1, modified \in 0..1 :
         run' = [run EXCEPT ![rq] =
                   IF staged = 0 /\ modified = 0
                   THEN Throw(@, "no_changes")
                   ELSE [@ EXCEPT !.pc = "create"]]
    /\ UNCHANGED <<reviews, issues, dbFaults, filesParsed, issuesParsed>>
    /\ UNCHANGED outsideAnalysis

\* await git.show([commitHash, "--format=%H"]) of analyzeCommit
GitShow(rq) ==
    /\ run[rq].pc = "show"
    /\ \E found \in BOOLEAN :
         run' = [run EXCEPT ![rq] =
                   IF found THEN [@ EXCEPT !.pc = "create"]
                   ELSE Throw(@, "commit_not_found")]
    /\ UNCHANGED <<reviews, issues, dbFaults, filesParsed, issuesParsed>>
    /\ UNCHANGED outsideAnalysis

\* the status a new review row is given
CreatedStatus == "IN_PROGRESS"

\* await git.branchLocal(); await prisma.codeReview.create(...)
CreateReview(rq) ==
    /\ run[rq].pc = "create"
    /\ reviews' = Append(reviews,
                         NewReview(run[rq].key, run[rq].kind = "commit",
                                   CreatedStatus))
    /\ run' = [run EXCEPT ![rq] =
                 [@ EXCEPT !.review = Len(reviews) + 1, !.pc = "diff"]]
    /\ UNCHANGED <<issues, dbFaults, filesParsed, issuesParsed>>
    /\ UNCHANGED outsideAnalysis

\* await git.diff(...) / git.show([commitHash, "--format="]), parseDiff,
\* await this.getActiveStandards() (a read of the standards, which the
\* model does not track), then the loop up to its first await
GitDiff(rq) ==
    /\ run[rq].pc = "diff"
    /\ \/ /\ \E error \in {"no_diff", "unparsable_diff"} :
               run' = [run EXCEPT ![rq] = Throw(@, error)]
          /\ UNCHANGED filesParsed
       \/ \E parsedDiff \in Diffs :
            /\ filesParsed + Len(parsedDiff) <= MaxTotalFiles
            /\ filesParsed' = filesParsed + Len(parsedDiff)
            /\ run' = [run EXCEPT ![rq] =
                         Advance([@ EXCEPT !.diff = parsedDiff], 1)]
    /\ UNCHANGED <<reviews, issues, dbFaults, issuesParsed>>
    /\ UNCHANGED outsideAnalysis

\* the file at position idx has been dealt with: on to the next one
NextFile(rr) == Advance(rr, rr.idx + 1)

\* variant: a failed analysis aborts the run
AnalysisFailedAborts(rr) ==
    Throw([rr EXCEPT !.aiFailed = @ \cup {rr.idx}], "ai_error")

\* variant: a failed analysis ends the loop
AnalysisFailedBreaks(rr) ==
    Advance([rr EXCEPT !.aiFailed = @ \cup {rr.idx}], Len(rr.diff) + 1)

\* the per-file catch: log and continue with the other files
AnalysisFailed(rr) == NextFile([rr EXCEPT !.aiFailed = @ \cup {rr.idx}])

\* variant: the next file is started before the issues are written
AfterReplyNoWait(rr, parsed) == NextFile([rr EXCEPT !.pending = parsed])

\* analyzeCode has returned: the loop over analysis.analysis.issues writes
\* the issues one by one before the file loop goes on
AfterReply(rr, parsed) ==
    IF parsed = <<>> THEN NextFile(rr)
    ELSE [rr EXCEPT !.pending = parsed, !.pc = "save"]

\* the call of aiService that was in flight went to rr.service
Served(rr) == [rr EXCEPT !.servedBy = @ \cup {rr.service}]

\* variant: a recommendation is pushed only if it is not in the list yet
PushAllOnce(all, recs) ==
    [k \in DOMAIN all |->
        all[k] \o SelectSeq(recs[k],
                            LAMBDA r : \A i \in 1..Len(all[k]) : all[k][i] # r)]

\* allRecommendations.<category>.push(...recs.<category>), four times
PushAll(all, recs) == [k \in DOMAIN all |-> all[k] \o recs[k]]

\* "Collect recommendations"
Collected(rr, recs) ==
    [rr EXCEPT !.recommendations = PushAll(@, recs),
               !.fileRecommendations = Append(@, [file |-> rr.idx, recs |-> recs])]

\* await aiService.analyzeCode(changedCode, file.to, language, standards)
\* with a reply of `replies`: the health check, the provider call and
\* parseAnalysisResponse
AnalyzeCodeWith(rq, replies) ==
    /\ run[rq].pc = "analyze"
    /\ \/ /\ \E error \in AnalyzeErrors :
               run' = [run EXCEPT ![rq] = AnalysisFailed(Served(@))]
          /\ UNCHANGED issuesParsed
       \/ \E reply \in replies :
            LET parsed == ParsedIssues(reply)
                recs == parseAnalysisResponse(reply).recommendations
            IN  /\ issuesParsed + Len(parsed) <= MaxTotalIssues
                /\ issuesParsed' = issuesParsed + Len(parsed)
                /\ run' = [run EXCEPT ![rq] =
                             AfterReply(Collected(Served(@), recs), parsed)]
    /\ UNCHANGED <<reviews, issues, dbFaults, filesParsed>>
    /\ UNCHANGED outsideAnalysis

AnalyzeCode(rq) == AnalyzeCodeWith(rq, ReplyCatalog)

\* replies that carry recommendations, some of them twice
RecommendingReplies ==
    { [Reply("object", TRUE, <<>>) EXCEPT !.recommendations =
          [NoRecommendations EXCEPT !.documentation = <<"doc1">>,
                                    !.testing = <<"test1", "test1">>]],
      [Reply("object", TRUE, <<>>) EXCEPT !.recommendations =
          [NoRecommendations EXCEPT !.documentation = <<"doc1">>,
                                    !.cicd = <<"ci1">>]],
      [ReplyMinorLine1 EXCEPT !.recommendations =
          [NoRecommendations EXCEPT !.architecture = <<"arch1">>]],
      ReplyNoJson }

\* variant: the issue is pushed to allIssues whether or not it was written
AfterSavePushesAlways(rr, savedIssue, saved) ==
    [rr EXCEPT !.pending = Tail(@),
               !.allIssues = Append(@, savedIssue),
               !.rejected = IF saved THEN @
                             ELSE Append(@, <<savedIssue.filePath, savedIssue.title>>)]

\* allIssues.push(savedIssue) after a successful create; the catch of a
\* failed create only logs
AfterSave(rr, savedIssue, saved) ==
    [rr EXCEPT !.pending = Tail(@),
               !.allIssues = IF saved THEN Append(@, savedIssue) ELSE @,
               !.rejected = IF saved THEN @
                             ELSE Append(@, <<savedIssue.filePath, savedIssue.title>>)]

\* await prisma.codeIssue.create(...) for the next issue of the file; a
\* failed write is logged and skipped
SaveIssue(rq) ==
    /\ run[rq].pc = "save"
    /\ \E dbOk \in DbOutcomes :
         LET rr == run[rq]
             savedIssue == IssueData(rr.review, rr.diff[rr.idx], Head(rr.pending))
             saved == dbOk /\ IssueAccepted(savedIssue) /\ ReviewExists(rr.review)
             after == AfterSave(rr, savedIssue, saved)
         IN  /\ issues' = IF saved THEN issues \cup {savedIssue} ELSE issues
             /\ run' = [run EXCEPT ![rq] =
                          IF after.pending = <<>> THEN NextFile(after) ELSE after]
             /\ dbFaults' = Faults(dbOk)
    /\ UNCHANGED <<reviews, filesParsed, issuesParsed>>
    /\ UNCHANGED outsideAnalysis

\* variant: the run without analysed files is closed as COMPLETED
NoFilesStatusCompleted == "COMPLETED"

\* the status written when no file was analysed
NoFilesStatus == "FAILED"

\* variant: a run without analysed files goes on to the final update
AfterNoFilesCompletes(rr) == [rr EXCEPT !.pc = "complete"]

\* throw new Error("No supported files found to analyze. ...")
AfterNoFiles(rr) == Throw(rr, "no_supported_files")

\* filesAnalyzed === 0: await prisma.codeReview.update(FAILED), then throw
MarkNoFiles(rq) ==
    /\ run[rq].pc = "nofiles"
    /\ IF ReviewExists(run[rq].review)
       THEN /\ reviews' = [reviews EXCEPT ![run[rq].review].status = NoFilesStatus]
            /\ run' = [run EXCEPT ![rq] = AfterNoFiles(@)]
       ELSE /\ reviews' = reviews
            /\ run' = [run EXCEPT ![rq] = Throw(@, "db_error")]
    /\ UNCHANGED <<issues, dbFaults, filesParsed, issuesParsed>>
    /\ UNCHANGED outsideAnalysis

\* the position in allIssues of allIssues.find((i) => i.title === title),
\* 0 if there is none
FindByTitle(allIssues, title) ==
    LET hits == {i \in 1..Len(allIssues) : allIssues[i].title = title}
    IN  IF hits = {} THEN 0 ELSE CHOOSE i \in hits : \A j \in hits : i <= j

\* the rows after the breakdown loop gave `effort` to every issue that
\* allIssues.find returns for a title of the breakdown
WithEffort(allIssues, effort) ==
    LET found == {allIssues[FindByTitle(allIssues, allIssues[i].title)].id :
                    i \in 1..Len(allIssues)}
    IN  {IF x.id \in found THEN [x EXCEPT !.effort = effort] ELSE x : x \in issues}

\* the totalEffort of the provider's estimate, in half hours
ReplyTotalEffort == 7

\* variant: no estimate when the request raises
FallbackEffortZero(allIssues) == 0

\* estimatedEffort = allIssues.length * 0.5, in half hours
FallbackEffort(allIssues) == Len(allIssues)

\* allIssues.length > 0: await aiService.estimateEffort(allIssues) and the
\* updates of the issues' effort; whatever raises inside falls back to half
\* an hour per issue
EstimateEffort(rq) ==
    /\ run[rq].pc = "estimate"
    /\ LET rr == run[rq]
           n  == FallbackEffort(rr.allIssues)
           called == [Served(rr) EXCEPT !.estimateCalls = @ + 1, !.pc = "complete"]
       IN  \/ \* the health check reports "error": aiService raises
              /\ run' = [run EXCEPT ![rq] = [called EXCEPT !.estimatedEffort = n]]
              /\ UNCHANGED <<issues, dbFaults>>
           \/ \* the provider call fails: the service's default estimate
              /\ run' = [run EXCEPT ![rq] =
                           [called EXCEPT !.estimatedEffort =
                                            IF ReviewExists(rr.review)
                                            THEN Len(rr.allIssues) ELSE n]]
              /\ issues' = IF ReviewExists(rr.review)
                            THEN WithEffort(rr.allIssues, 1) ELSE issues
              /\ UNCHANGED dbFaults
           \/ \* the provider replies with totalEffort and a breakdown
              \E totalEffort \in {ReplyTotalEffort}, dbOk \in DbOutcomes :
                LET updated == dbOk /\ ReviewExists(rr.review) IN
                /\ run' = [run EXCEPT ![rq] =
                             [called EXCEPT !.estimatedEffort =
                                              IF updated THEN totalEffort ELSE n]]
                /\ issues' = IF updated THEN WithEffort(rr.allIssues, 2) ELSE issues
                /\ dbFaults' = Faults(dbOk)
    /\ UNCHANGED <<reviews, filesParsed, issuesParsed>>
    /\ UNCHANGED outsideAnalysis

\* the data of the final prisma.codeReview.update
Completed(row, rr) ==
    [row EXCEPT !.status = "COMPLETED",
                !.filesAnalyzed = rr.filesAnalyzed,
                !.issuesFound = Len(rr.allIssues),
                !.criticalIssues = CountSeverity(rr.allIssues, "CRITICAL"),
                !.majorIssues = CountSeverity(rr.allIssues, "MAJOR"),
                !.minorIssues = CountSeverity(rr.allIssues, "MINOR"),
                !.estimatedEffort = rr.estimatedEffort,
                !.recommendations = <<rr.recommendations>>]

\* await prisma.codeReview.update(COMPLETED, counters); on success the
\* service returns the row and the route answers 200
CompleteReview(rq) ==
    /\ run[rq].pc = "complete"
    /\ \E dbOk \in DbOutcomes :
         LET updated == dbOk /\ ReviewExists(run[rq].review) IN
         /\ reviews' = IF updated
                       THEN [reviews EXCEPT ![run[rq].review] = Completed(@, run[rq])]
                       ELSE reviews
         /\ run' = [run EXCEPT ![rq] =
                      IF updated THEN Finished(@, "none", 200)
                      ELSE Throw(@, "db_error")]
         /\ dbFaults' = Faults(dbOk)
    /\ UNCHANGED <<issues, filesParsed, issuesParsed>>
    /\ UNCHANGED outsideAnalysis

\* variant: the newest review of the table, of whichever user and repository
CatchTargetAnyKey(rr) == Len(reviews)

\* the review the catch block of analyzeStagedChanges looks up
CatchTarget(rr) == LatestReview(rr.key)

\* catch of analyzeStagedChanges: await prisma.codeReview.findFirst(...);
\* a failure of the lookup is logged and the error rethrown
CatchFindFirst(rq) ==
    /\ run[rq].pc = "catch"
    /\ \E dbOk \in DbOutcomes :
         LET rr == run[rq]
             existingReview == CatchTarget(rr)
         IN  /\ run' = [run EXCEPT ![rq] =
                   IF ~dbOk
                   THEN Respond500([rr EXCEPT !.handlerOk = FALSE], rr.error)
                   ELSE IF existingReview # 0
                           /\ reviews[existingReview].status = "IN_PROGRESS"
                   THEN [rr EXCEPT !.existingReview = existingReview,
                                   !.pc = "catch_update"]
                   ELSE Respond500(rr, rr.error)]
             /\ dbFaults' = Faults(dbOk)
    /\ UNCHANGED <<reviews, issues, filesParsed, issuesParsed>>
    /\ UNCHANGED outsideAnalysis

\* catch of analyzeStagedChanges: await prisma.codeReview.update(FAILED) of
\* existingReview, then rethrow; a failure of the update is logged
CatchUpdate(rq) ==
    /\ run[rq].pc = "catch_update"
    /\ \E dbOk \in DbOutcomes :
         LET updated == dbOk /\ ReviewExists(run[rq].existingReview) IN
         /\ reviews' = IF updated
                       THEN [reviews EXCEPT ![run[rq].existingReview].status = "FAILED"]
                       ELSE reviews
         /\ run' = [run EXCEPT ![rq] =
                      Respond500([@ EXCEPT !.handlerOk = updated], @.error)]
         /\ dbFaults' = Faults(dbOk)
    /\ UNCHANGED <<issues, filesParsed, issuesParsed>>
    /\ UNCHANGED outsideAnalysis

----------------------------------------------------------------------------
(* The AI provider setting: AIService and the /api/ai/provider routes *)

\* the calls of the AI service that may be in flight together, in the
\* order they start
CallOrder == <<"call1", "call2">>

CallIds == {CallOrder[i] : i \in 1..Len(CallOrder)}

AiOperations == {"analyzeCode", "generateFix", "estimateEffort"}

IdleCall ==
    [pc |-> "idle",          \* the await the call is suspended at
     op |-> "none",          \* the method of aiService
     service |-> "none",     \* const service = this.getService()
     startedOn |-> "none",   \* this.provider when the call started
     checkedOn |-> "none",   \* the service whose checkHealth was called
     requestedOn |-> "none", \* the service whose analyzeCode / ... was called
     outcome |-> "none"]

IdleApi ==
    [get |-> "none",         \* provider of the last GET /api/ai/provider
     post |-> "idle",        \* position of the POST /api/ai/provider handler
     body |-> "",            \* its req.body.provider
     status |-> 0]           \* status of the last POST response

\* process.env.AI_PROVIDER || "ollama"
InitProvider ==
    /\ provider \in {"ollama", "gemini", "openai"}
    /\ switched = [from |-> provider, times |-> 0]
    /\ calls = [c \in CallIds |-> IdleCall]
    /\ api = IdleApi

\* aiService.analyzeCode / generateFix / estimateEffort up to the first
\* await: const service = this.getService(); service.checkHealth()
StartCall(c) ==
    /\ calls[c].pc = "idle"
    /\ \A i, j \in 1..Len(CallOrder) :
         i < j /\ CallOrder[j] = c => calls[CallOrder[i]].pc # "idle"
    /\ \E op \in AiOperations :
         calls' = [calls EXCEPT ![c] =
                     [@ EXCEPT !.pc = "health", !.op = op,
                               !.service = getService(provider),
                               !.startedOn = provider,
                               !.checkedOn = getService(provider)]]
    /\ UNCHANGED <<provider, switched, api>>
    /\ UNCHANGED <<pipelineVars, deletedReviews, standardVars, parserVars, clientVars>>

\* variant: the service is looked up again when the request is made
RequestServiceLate(call) == getService(provider)

\* the service the request is made on: the local `service`
RequestService(call) == call.service

\* the health check has returned: status "error" raises, otherwise
\* service.analyzeCode / generateFix / estimateEffort is called
HealthChecked(c) ==
    /\ calls[c].pc = "health"
    /\ \E status \in {"ok", "warning", "error"} :
         calls' = [calls EXCEPT ![c] =
                     IF status = "error"
                     THEN [@ EXCEPT !.pc = "done", !.outcome = "unavailable"]
                     ELSE [@ EXCEPT !.pc = "request",
                                    !.requestedOn = RequestService(calls[c])]]
    /\ UNCHANGED <<provider, switched, api>>
    /\ UNCHANGED <<pipelineVars, deletedReviews, standardVars, parserVars, clientVars>>

\* the request to the provider has returned or raised
CallReturned(c) ==
    /\ calls[c].pc = "request"
    /\ \E outcome \in {"returned", "raised"} :
         calls' = [calls EXCEPT ![c] = [@ EXCEPT !.pc = "done", !.outcome = outcome]]
    /\ UNCHANGED <<provider, switched, api>>
    /\ UNCHANGED <<pipelineVars, deletedReviews, standardVars, parserVars, clientVars>>

\* GET /api/ai/provider
GetProvider ==
    /\ api' = [api EXCEPT !.get = provider]
    /\ UNCHANGED <<provider, switched, calls>>
    /\ UNCHANGED <<pipelineVars, deletedReviews, standardVars, parserVars, clientVars>>

\* POST /api/ai/provider up to its await: 400 for a missing or invalid
\* provider, otherwise setProvider and aiService.checkHealth()
PostProvider ==
    /\ api.post # "health"
    /\ \E p \in ProviderInputs :
         IF p = "" \/ ~IsValidProvider(p)
         THEN /\ api' = [api EXCEPT !.post = "done", !.body = p, !.status = 400]
              /\ UNCHANGED <<provider, switched>>
         ELSE /\ setProvider(p)
              /\ api' = [api EXCEPT !.post = "health", !.body = p, !.status = 0]
    /\ UNCHANGED calls
    /\ UNCHANGED <<pipelineVars, deletedReviews, standardVars, parserVars, clientVars>>

\* POST /api/ai/provider after its health check: res.json({provider, health})
PostProviderAnswered ==
    /\ api.post = "health"
    /\ api' = [api EXCEPT !.post = "done", !.status = 200]
    /\ UNCHANGED <<provider, switched, calls>>
    /\ UNCHANGED <<pipelineVars, deletedReviews, standardVars, parserVars, clientVars>>

\* the analyze routes: "Switch provider if specified", 400 for a
\* provider that is neither "ollama" nor "gemini"
AnalyzeSwitch ==
    /\ \E p \in ProviderInputs :
         IF p # "" /\ p # provider /\ IsValidProvider(p)
         THEN setProvider(p)
         ELSE UNCHANGED <<provider, switched>>
    /\ UNCHANGED <<calls, api>>
    /\ UNCHANGED <<pipelineVars, deletedReviews, standardVars, parserVars, clientVars>>

NextProvider ==
    \/ \E c \in CallIds : StartCall(c) \/ HealthChecked(c) \/ CallReturned(c)
    \/ GetProvider
    \/ PostProvider
    \/ PostProviderAnswered
    \/ AnalyzeSwitch

----------------------------------------------------------------------------
(* The coding standards API: POST, PUT, DELETE /api/standards and /seed *)

\* the standards API requests that may be in flight together
StandardRequests == {"std1", "std2"}

\* most CodingStandard rows ever created
MaxStandards == 3

\* the names of the first two of the four built-in standards that /seed
\* creates, in its order
BuiltInNames == <<"PEP8", "Google JavaScript Style Guide">>

\* the `name` of a request body; "" is a body without name
NameInputs == {"", "PEP8", "Team"}

\* an optional boolean of a request body
OptionalFlags == {"undefined", "true", "false"}

StandardRow(id, name, isBuiltIn, isActive) ==
    [id |-> id, name |-> name, isBuiltIn |-> isBuiltIn, isActive |-> isActive]

\* tables the requests may find: empty, seeded in part, with a user's
\* standard, with a user's standard that took a built-in name
StandardTables ==
    { {},
      {StandardRow(1, "PEP8", TRUE, TRUE)},
      {StandardRow(1, "PEP8", TRUE, TRUE), StandardRow(2, "Team", FALSE, TRUE)},
      {StandardRow(1, "PEP8", FALSE, TRUE)} }

IdleStandardRun ==
    [pc |-> "idle", op |-> "none",
     id |-> 0,                \* req.params.id
     name |-> "",             \* body.name
     isActive |-> "undefined", \* body.isActive
     isBuiltIn |-> "undefined", \* body.isBuiltIn, which no route reads
     idx |-> 0,               \* position in builtInStandards
     created |-> 0,           \* created.length of /seed
     http |-> 0]

InitStandards ==
    /\ standards \in StandardTables
    /\ nextStandardId = Cardinality(standards) + 1
    /\ stdRun = [sq \in StandardRequests |-> IdleStandardRun]

\* prisma.codingStandard.findUnique: the rows found, none or one
FindStandardById(id) == {row \in standards : row.id = id}

FindStandardByName(name) == {row \in standards : row.name = name}

AnswerStandard(sr, http) ==
    [IdleStandardRun EXCEPT !.pc = "done", !.op = sr.op, !.id = sr.id, !.http = http,
                            !.created = IF http = 200 THEN sr.created ELSE 0]

\* /seed up to its first await: the first findUnique of the loop
SeedStarted(sr) == [sr EXCEPT !.op = "seed", !.pc = "seed_find", !.idx = 1]

\* POST /api/standards/seed is received
ReceiveSeed(sq) ==
    /\ stdRun[sq].pc = "idle"
    /\ stdRun' = [stdRun EXCEPT ![sq] = SeedStarted(@)]
    /\ UNCHANGED <<standards, nextStandardId>>
    /\ UNCHANGED <<pipelineVars, deletedReviews, providerVars, parserVars, clientVars>>

\* the handlers up to their first await
ReceiveStandardRequest(sq) ==
    /\ stdRun[sq].pc = "idle"
    /\ \/ \E name \in NameInputs, isBuiltIn \in OptionalFlags :
            stdRun' = [stdRun EXCEPT ![sq] =
                         IF name = ""
                         THEN AnswerStandard([@ EXCEPT !.op = "post"], 400)
                         ELSE [@ EXCEPT !.op = "post", !.pc = "create",
                                        !.name = name, !.isBuiltIn = isBuiltIn]]
       \/ \E id \in 1..nextStandardId, name \in NameInputs,
             isActive \in OptionalFlags, isBuiltIn \in OptionalFlags :
            stdRun' = [stdRun EXCEPT ![sq] =
                         [@ EXCEPT !.op = "put", !.pc = "put_find", !.id = id,
                                   !.name = name, !.isActive = isActive,
                                   !.isBuiltIn = isBuiltIn]]
       \/ \E id \in 1..nextStandardId :
            stdRun' = [stdRun EXCEPT ![sq] =
                         [@ EXCEPT !.op = "delete", !.pc = "delete_find", !.id = id]]
       \/ stdRun' = [stdRun EXCEPT ![sq] = SeedStarted(@)]
    /\ UNCHANGED <<standards, nextStandardId>>
    /\ UNCHANGED <<pipelineVars, deletedReviews, providerVars, parserVars, clientVars>>

\* prisma.codingStandard.create: the unique index on name may reject it
InsertStandard(sq, name, isBuiltIn, after) ==
    IF FindStandardByName(name) # {}
    THEN /\ stdRun' = [stdRun EXCEPT ![sq] = AnswerStandard(@, 500)]
         /\ UNCHANGED <<standards, nextStandardId>>
    ELSE /\ nextStandardId <= MaxStandards
         /\ standards' = standards
                \cup {StandardRow(nextStandardId, name, isBuiltIn, TRUE)}
         /\ nextStandardId' = nextStandardId + 1
         /\ stdRun' = [stdRun EXCEPT ![sq] = after]

\* POST /api/standards: create({data: {..., isBuiltIn: false}})
CreateStandard(sq) ==
    /\ stdRun[sq].pc = "create"
    /\ InsertStandard(sq, stdRun[sq].name, FALSE, AnswerStandard(stdRun[sq], 200))
    /\ UNCHANGED <<pipelineVars, deletedReviews, providerVars, parserVars, clientVars>>

\* variant: built-in standards are not protected
MayChangeAny(existing) == TRUE

\* if (existing.isBuiltIn) return res.status(403)
MayChange(existing) == ~existing.isBuiltIn

\* PUT and DELETE /api/standards/:id: findUnique, 404, 403
FindStandard(sq) ==
    /\ stdRun[sq].pc \in {"put_find", "delete_find"}
    /\ LET found == FindStandardById(stdRun[sq].id) IN
       stdRun' = [stdRun EXCEPT ![sq] =
                    IF found = {} THEN AnswerStandard(@, 404)
                    ELSE IF ~MayChange(CHOOSE row \in found : TRUE)
                    THEN AnswerStandard(@, 403)
                    ELSE [@ EXCEPT !.pc = IF stdRun[sq].op = "put"
                                          THEN "put_update" ELSE "delete"]]
    /\ UNCHANGED <<standards, nextStandardId>>
    /\ UNCHANGED <<pipelineVars, deletedReviews, providerVars, parserVars, clientVars>>

\* the `data` of the update: the fields of the body that are not undefined,
\* among name, description, language, rules and isActive
UpdatedStandard(row, sr) ==
    [row EXCEPT !.name = IF sr.name = "" THEN @ ELSE sr.name,
                !.isActive = IF sr.isActive = "undefined" THEN @
                             ELSE sr.isActive = "true"]

\* PUT: prisma.codingStandard.update({where: {id}, data})
UpdateStandard(sq) ==
    /\ stdRun[sq].pc = "put_update"
    /\ LET found == FindStandardById(stdRun[sq].id)
           taken == {row \in FindStandardByName(stdRun[sq].name) :
                       row.id # stdRun[sq].id}
       IN  IF found = {} \/ taken # {}
           THEN /\ stdRun' = [stdRun EXCEPT ![sq] = AnswerStandard(@, 500)]
                /\ UNCHANGED standards
           ELSE /\ standards' = {IF row \in found
                                 THEN UpdatedStandard(row, stdRun[sq])
                                 ELSE row : row \in standards}
                /\ stdRun' = [stdRun EXCEPT ![sq] = AnswerStandard(@, 200)]
    /\ UNCHANGED nextStandardId
    /\ UNCHANGED <<pipelineVars, deletedReviews, providerVars, parserVars, clientVars>>

\* DELETE: prisma.codingStandard.delete({where: {id}})
DeleteStandard(sq) ==
    /\ stdRun[sq].pc = "delete"
    /\ LET found == FindStandardById(stdRun[sq].id) IN
       IF found = {}
       THEN /\ stdRun' = [stdRun EXCEPT ![sq] = AnswerStandard(@, 500)]
            /\ UNCHANGED standards
       ELSE /\ standards' = standards \ found
            /\ stdRun' = [stdRun EXCEPT ![sq] = AnswerStandard(@, 200)]
    /\ UNCHANGED nextStandardId
    /\ UNCHANGED <<pipelineVars, deletedReviews, providerVars, parserVars, clientVars>>

\* /seed after the built-in standard at position idx: the next one, or the
\* response
SeedNext(sr) ==
    IF sr.idx < Len(BuiltInNames)
    THEN [sr EXCEPT !.pc = "seed_find", !.idx = @ + 1]
    ELSE AnswerStandard(sr, 200)

\* variant: /seed creates each built-in standard without looking it up
SeedFindSkipped(sq) ==
    /\ stdRun[sq].pc = "seed_find"
    /\ stdRun' = [stdRun EXCEPT ![sq] = [@ EXCEPT !.pc = "seed_create"]]
    /\ UNCHANGED <<standards, nextStandardId>>
    /\ UNCHANGED <<pipelineVars, deletedReviews, providerVars, parserVars, clientVars>>

\* /seed: findUnique({where: {name: standard.name}})
SeedFind(sq) ==
    /\ stdRun[sq].pc = "seed_find"
    /\ stdRun' = [stdRun EXCEPT ![sq] =
                    IF FindStandardByName(BuiltInNames[@.idx]) = {}
                    THEN [@ EXCEPT !.pc = "seed_create"]
                    ELSE SeedNext(@)]
    /\ UNCHANGED <<standards, nextStandardId>>
    /\ UNCHANGED <<pipelineVars, deletedReviews, providerVars, parserVars, clientVars>>

\* /seed: create({data: standard}) with isBuiltIn: true, then
\* created.push(created_standard)
SeedCreate(sq) ==
    /\ stdRun[sq].pc = "seed_create"
    /\ InsertStandard(sq, BuiltInNames[stdRun[sq].idx], TRUE,
                      SeedNext([stdRun[sq] EXCEPT !.created = @ + 1]))
    /\ UNCHANGED <<pipelineVars, deletedReviews, providerVars, parserVars, clientVars>>

NextStandards ==
    \E sq \in StandardRequests :
        \/ ReceiveStandardRequest(sq)
        \/ CreateStandard(sq)
        \/ FindStandard(sq)
        \/ UpdateStandard(sq)
        \/ DeleteStandard(sq)
        \/ SeedFind(sq)
        \/ SeedCreate(sq)

----------------------------------------------------------------------------
(* parseAnalysisResponse on its own *)

\* most elements of the `issues` array of a response
MaxReplyIssues == 2

\* the elements an `issues` array is made of: a complete issue, issues
\* that lack one required field, an issue at line 0, an issue whose title
\* is the empty string, an issue with lineEnd and autoFixable, and null
ParserCandidates ==
    {Candidate("a", "MAJOR", 4, IssueFields)}
    \cup {Candidate("b", "MINOR", 2, IssueFields \ {f}) : f \in IssueFields}
    \cup {Candidate("c", "INFO", 0, IssueFields)}
    \cup {Candidate("", "MAJOR", 3, IssueFields)}
    \cup {[Candidate("e", "CRITICAL", 5, IssueFields)
             EXCEPT !.lineEnd = 9, !.autoFixable = TRUE,
                    !.has = @ \cup {"lineEnd", "autoFixable"}]}
    \cup {NullCandidate}

\* the `summary` a model may write, whatever its issues are
ModelSummary == [critical |-> 2, major |-> 0, minor |-> 1, info |-> 0]

ModelRecommendations == [NoRecommendations EXCEPT !.testing = <<"add tests">>]

\* the pieces a response text is made of: prose, the braces, and the
\* three backquotes that fence a code block
TextTokens == {"x", "{", "}", "fence"}

\* most pieces of a response text
MaxTextLen == 5

Texts == UNION {[1..n -> TextTokens] : n \in 0..MaxTextLen}

\* response.match(/```(?:json)?\s*(\{[\s\S]*?\})\s*```/): group 1 of the
\* leftmost, then shortest match; <<>> stands for null
FencedMatch(text) ==
    LET spans == {span \in (1..Len(text)) \X (1..Len(text)) :
                    /\ 1 < span[1] /\ span[1] < span[2] /\ span[2] < Len(text)
                    /\ text[span[1] - 1] = "fence" /\ text[span[1]] = "{"
                    /\ text[span[2]] = "}" /\ text[span[2] + 1] = "fence"}
    IN  IF spans = {} THEN <<>>
        ELSE LET first == CHOOSE i \in {span[1] : span \in spans} :
                              \A span \in spans : i <= span[1]
                 last == CHOOSE j \in {span[2] : span \in {x \in spans : x[1] = first}} :
                             \A span \in spans : span[1] = first => j <= span[2]
             IN  SubSeq(text, first, last)

\* response.match(/\{[\s\S]*\}/): from the first "{" to the last "}"
BraceMatch(text) ==
    LET pairs == {span \in (1..Len(text)) \X (1..Len(text)) :
                    span[1] < span[2] /\ text[span[1]] = "{" /\ text[span[2]] = "}"}
    IN  IF pairs = {} THEN <<>>
        ELSE LET first == CHOOSE i \in {span[1] : span \in pairs} :
                              \A span \in pairs : i <= span[1]
                 last == CHOOSE j \in {span[2] : span \in pairs} :
                             \A span \in pairs : span[2] <= j
             IN  SubSeq(text, first, last)

\* jsonMatch[1] || jsonMatch[0]
JsonStr(text) ==
    IF FencedMatch(text) # <<>> THEN FencedMatch(text) ELSE BraceMatch(text)

\* JSON.parse(jsonStr): of the texts made of these pieces only "{}" is
\* JSON; it stands for the object the model wrote
JsonKind(text) ==
    IF JsonStr(text) = <<>> THEN "none"
    ELSE IF JsonStr(text) = <<"{", "}">> THEN "object"
    ELSE "invalid"

\* the objects a model may write
ParserObjects ==
    { [Reply("object", isList, candidates)
         EXCEPT !.summary = summary, !.recommendations = recommendations] :
        isList \in BOOLEAN,
        candidates \in UNION {[1..k -> ParserCandidates] : k \in 0..MaxReplyIssues},
        summary \in {<<>>, <<ModelSummary>>},
        recommendations \in {NoRecommendations, ModelRecommendations} }

\* the responses the parser is given: every text around one object, and
\* every object in the text "{}"
ParserInputs ==
    {[text |-> text, object |-> ReplyMinorLine1] : text \in Texts}
    \cup {[text |-> <<"{", "}">>, object |-> object] :
            object \in {o \in ParserObjects : o.issuesIsList \/ o.issues = <<>>}}

\* what the parser makes of the response text
ReplyOfText(input) == [input.object EXCEPT !.json = JsonKind(input.text)]

NotParsed == [parsed |-> FALSE, value |-> EmptyResult]

InitParser ==
    /\ response \in ParserInputs
    /\ result = NotParsed

\* this.parseAnalysisResponse(response)
Parse ==
    /\ ~result.parsed
    /\ result' = [parsed |-> TRUE,
                  value |-> parseAnalysisResponse(ReplyOfText(response))]
    /\ UNCHANGED response
    /\ UNCHANGED <<pipelineVars, deletedReviews, providerVars, standardVars, clientVars>>

NextParser == Parse

----------------------------------------------------------------------------
(* DELETE /api/reviews/:id *)

\* most reviews deleted in one behaviour
MaxDeletes == 1

\* ON DELETE CASCADE of CodeIssue_reviewId_fkey
Cascade(id) == {x \in issues : x.reviewId # id}

\* await prisma.codeReview.delete({where: {id}}), then the response
DeleteReview(id) ==
    /\ id \in 1..Len(reviews)
    /\ ReviewExists(id)
    /\ Cardinality(deletedReviews) < MaxDeletes
    /\ deletedReviews' = deletedReviews \cup {id}
    /\ issues' = Cascade(id)
    /\ UNCHANGED <<reviews, run, dbFaults, filesParsed, issuesParsed>>
    /\ UNCHANGED <<providerVars, standardVars, parserVars, clientVars>>

----------------------------------------------------------------------------
(* The requests on one issue: PUT /api/reviews/issues/:issueId/resolve and
   POST /api/reviews/issues/:issueId/fix *)

\* the fix requests that may be in flight
FixRequests == {"fix1"}

\* the issueId of a request: the first issues of the first review
IssueIds == {<<1, 1>>, <<1, 2>>}

\* what aiService.generateFix may return
FixedCodes == {"patch1", "patch2"}

\* replies with an issue the model marks as auto-fixable
FixableReplies ==
    { Reply("object", TRUE,
            << [Candidate("t7", "CRITICAL", 3, IssueFields \cup {"autoFixable"})
                  EXCEPT !.autoFixable = TRUE],
               Candidate("t8", "MINOR", 4, IssueFields) >>),
      ReplyMinorLine1 }

IdleFix ==
    [pc |-> "idle",
     issueId |-> <<0, 0>>,   \* req.params.issueId
     fixedCode |-> "",       \* the result of aiService.generateFix
     http |-> 0]

\* prisma.codeIssue.findUnique({where: {id}}): the rows found, none or one
FindIssue(id) == {x \in issues : x.id = id}

\* PUT /issues/:issueId/resolve: prisma.codeIssue.update({where: {id},
\* data: {resolved}}), resolved being true unless the body says otherwise;
\* for an id without row the update raises and the route answers 500
ResolveIssue ==
    /\ \E id \in IssueIds, resolved \in BOOLEAN :
         /\ FindIssue(id) # {}
         /\ issues' = {IF x.id = id THEN [x EXCEPT !.resolved = resolved] ELSE x :
                         x \in issues}
    /\ UNCHANGED <<reviews, run, dbFaults, filesParsed, issuesParsed>>
    /\ UNCHANGED outsideAnalysis

\* the response of the fix route
FixAnswered(fr, http) == [fr EXCEPT !.pc = "done", !.http = http]

\* POST /issues/:issueId/fix up to the first await of generateAutoFix:
\* 400 without repositoryPath
FixReceive(fx) ==
    /\ fixRun[fx].pc = "idle"
    /\ \E id \in IssueIds, hasPath \in BOOLEAN :
         fixRun' = [fixRun EXCEPT ![fx] =
                      IF ~hasPath THEN FixAnswered([@ EXCEPT !.issueId = id], 400)
                      ELSE [@ EXCEPT !.pc = "find", !.issueId = id]]
    /\ UNCHANGED <<hook, pipelineVars, deletedReviews, providerVars,
                   standardVars, parserVars>>

\* generateAutoFix: findUnique, "Issue not found", "This issue is not
\* auto-fixable", "Unsupported file type"; then fs.readFile is awaited
FixFind(fx) ==
    /\ fixRun[fx].pc = "find"
    /\ LET found == FindIssue(fixRun[fx].issueId) IN
       fixRun' = [fixRun EXCEPT ![fx] =
                    IF \E issue \in found :
                         /\ issue.autoFixable
                         /\ ExtName(issue.filePath) \in supportedExtensions
                    THEN [@ EXCEPT !.pc = "read"]
                    ELSE FixAnswered(@, 500)]
    /\ UNCHANGED <<hook, pipelineVars, deletedReviews, providerVars,
                   standardVars, parserVars>>

\* generateAutoFix: await fs.readFile(fullPath), then aiService.generateFix
\* is called
FixRead(fx) ==
    /\ fixRun[fx].pc = "read"
    /\ \E readOk \in BOOLEAN :
         fixRun' = [fixRun EXCEPT ![fx] =
                      IF readOk THEN [@ EXCEPT !.pc = "generate"]
                      ELSE FixAnswered(@, 500)]
    /\ UNCHANGED <<hook, pipelineVars, deletedReviews, providerVars,
                   standardVars, parserVars>>

\* generateAutoFix: await aiService.generateFix(codeSection, issue, language)
FixGenerate(fx) ==
    /\ fixRun[fx].pc = "generate"
    /\ \/ fixRun' = [fixRun EXCEPT ![fx] = FixAnswered(@, 500)]
       \/ \E fixedCode \in FixedCodes :
            fixRun' = [fixRun EXCEPT ![fx] =
                         [@ EXCEPT !.pc = "update", !.fixedCode = fixedCode]]
    /\ UNCHANGED <<hook, pipelineVars, deletedReviews, providerVars,
                   standardVars, parserVars>>

\* variant: storing a fix closes the issue as INFO
FixDataDowngrades(x, fixedCode) ==
    [x EXCEPT !.fixCode = fixedCode, !.severity = "INFO"]

\* data: { fixCode: fixedCode }
FixData(x, fixedCode) == [x EXCEPT !.fixCode = fixedCode]

\* generateAutoFix: await prisma.codeIssue.update({where: {id: issueId},
\* data: {fixCode: fixedCode}})
FixUpdate(fx) ==
    /\ fixRun[fx].pc = "update"
    /\ LET fr == fixRun[fx] IN
       IF FindIssue(fr.issueId) # {}
       THEN /\ issues' = {IF x.id = fr.issueId THEN FixData(x, fr.fixedCode)
                           ELSE x : x \in issues}
            /\ fixRun' = [fixRun EXCEPT ![fx] = FixAnswered(@, 200)]
       ELSE /\ issues' = issues
            /\ fixRun' = [fixRun EXCEPT ![fx] = FixAnswered(@, 500)]
    /\ UNCHANGED <<hook, reviews, run, dbFaults, filesParsed, issuesParsed>>
    /\ UNCHANGED <<deletedReviews, providerVars, standardVars, parserVars>>

----------------------------------------------------------------------------
(* The pre-commit hook, a process of its own that calls the backend *)

\* the request slot the hook's POST arrives in
HookRequest == RequestOrder[1]

IdleHook ==
    [pc |-> "start",
     skip |-> FALSE,        \* SKIP_CODE_REVIEW === "true"
     staged |-> FALSE,      \* checkStagedChanges()
     contacted |-> FALSE,   \* a request was sent to the backend
     health |-> "none",     \* the health request: "failed", "not200", "ok"
     answer |-> "none",     \* the analyze request: "failed", "answered"
     statusCode |-> 0,      \* of the analyze response
     criticalIssues |-> 0,  \* of the review in the response
     exit |-> 0]            \* the argument of process.exit

\* process.exit(code)
Exited(h, code) == [h EXCEPT !.pc = "exited", !.exit = code]

\* the main function: SKIP_REVIEW, checkStagedChanges(), then
\* runCodeReview up to its first await, the health request
HookMain ==
    /\ hook.pc = "start"
    /\ \E skip \in BOOLEAN, staged \in BOOLEAN :
         LET h == [hook EXCEPT !.skip = skip, !.staged = staged] IN
         hook' = IF skip THEN Exited(h, 0)
                 ELSE IF ~staged THEN Exited(h, 0)
                 ELSE [h EXCEPT !.pc = "health", !.contacted = TRUE]
    /\ UNCHANGED <<fixRun, pipelineVars, deletedReviews, providerVars,
                   standardVars, parserVars>>

\* await makeRequest(BACKEND_URL/health): a rejected request and a status
\* other than 200 end in process.exit(1); otherwise the analyze request
\* is sent
HookHealth ==
    /\ hook.pc = "health"
    /\ \E outcome \in {"failed", "not200", "ok"} :
         LET h == [hook EXCEPT !.health = outcome] IN
         hook' = IF outcome = "ok" THEN [h EXCEPT !.pc = "analyze"]
                 ELSE Exited(h, 1)
    /\ UNCHANGED <<fixRun, pipelineVars, deletedReviews, providerVars,
                   standardVars, parserVars>>

\* the backend receives the hook's POST /api/reviews/analyze-staged with
\* {repositoryPath, userId: parseInt(USER_ID)}; userId is NaN, sent as
\* null, if CODE_REVIEW_USER_ID is no number
HookPost ==
    /\ hook.pc = "analyze"
    /\ ReceiveRequestFrom(HookRequest, {"staged"}, {{}, {"userId"}}, {""})

\* variant: critical and major issues block the commit
BlocksCommitOnMajor(review) == review.criticalIssues > 0 \/ review.majorIssues > 0

\* if (review.criticalIssues > 0) process.exit(1)
BlocksCommit(review) == review.criticalIssues > 0

\* variant: the status of the response is not looked at
AnalysisFailedNever(statusCode) == FALSE

\* if (response.statusCode !== 200) process.exit(1)
AnalysisFailedStatus(statusCode) == statusCode # 200

\* the response to the analyze request arrives: a status other than 200
\* ends in process.exit(1), otherwise the review of the response decides
HookAnswered ==
    /\ hook.pc = "analyze"
    /\ run[HookRequest].pc = "done"
    /\ LET statusCode == run[HookRequest].http
           h == [hook EXCEPT !.answer = "answered", !.statusCode = statusCode]
       IN  hook' = IF AnalysisFailedStatus(statusCode) THEN Exited(h, 1)
                   ELSE LET review == reviews[run[HookRequest].review] IN
                        Exited([h EXCEPT !.criticalIssues = review.criticalIssues],
                               IF BlocksCommit(review) THEN 1 ELSE 0)
    /\ UNCHANGED <<fixRun, pipelineVars, deletedReviews, providerVars,
                   standardVars, parserVars>>

\* the analyze request is rejected (req.on("error")): the outer catch of
\* runCodeReview ends in process.exit(1)
HookRequestFails ==
    /\ hook.pc = "analyze"
    /\ hook' = Exited([hook EXCEPT !.answer = "failed"], 1)
    /\ UNCHANGED <<fixRun, pipelineVars, deletedReviews, providerVars,
                   standardVars, parserVars>>

----------------------------------------------------------------------------
(* The specifications *)

\* the provider setting, the standards and the parser at rest
QuietProvider ==
    /\ provider = "ollama"
    /\ switched = [from |-> provider, times |-> 0]
    /\ calls = [c \in CallIds |-> IdleCall]
    /\ api = IdleApi

QuietStandards ==
    /\ standards = {}
    /\ nextStandardId = 1
    /\ stdRun = [sq \in StandardRequests |-> IdleStandardRun]

QuietParser ==
    /\ response = [text |-> <<>>, object |-> ReplyNoJson]
    /\ result = NotParsed

\* no request on an issue, no hook process
QuietClients ==
    /\ fixRun = [fx \in FixRequests |-> IdleFix]
    /\ hook = IdleHook

Init == InitAnalysis /\ QuietProvider /\ QuietStandards /\ QuietParser /\ QuietClients

\* the awaits of analyzeStagedChanges other than aiService.analyzeCode
StagedWork(rq) ==
    \/ GitStatus(rq)
    \/ CreateReview(rq)
    \/ GitDiff(rq)
    \/ SaveIssue(rq)
    \/ MarkNoFiles(rq)
    \/ EstimateEffort(rq)
    \/ CompleteReview(rq)
    \/ CatchFindFirst(rq)
    \/ CatchUpdate(rq)

\* the awaits of both services other than aiService.analyzeCode
AnalysisWork(rq) == GitShow(rq) \/ StagedWork(rq)

\* one step of the analysis of a request
AnalysisStep(rq) ==
    \/ ReceiveRequest(rq)
    \/ AnalyzeCode(rq)
    \/ AnalysisWork(rq)

Next == \E rq \in Requests : AnalysisStep(rq)

Spec == Init /\ [][Next]_vars

\* one analysis together with deletions of reviews
NextWithDelete ==
    \/ AnalysisStep(RequestOrder[1])
    \/ \E id \in 1..Len(RequestOrder) : DeleteReview(id)

\* one analysis whose replies carry recommendations
NextRecommending ==
    \/ ReceiveRequest(RequestOrder[1])
    \/ AnalyzeCodeWith(RequestOrder[1], RecommendingReplies)
    \/ AnalysisWork(RequestOrder[1])

SpecRecommending == Init /\ [][NextRecommending]_vars

\* one analysis whose body may name a provider, together with
\* POST /api/ai/provider requests
NextRoutes ==
    \/ ReceiveRequestWith(RequestOrder[1], ProviderInputs)
    \/ AnalyzeCode(RequestOrder[1])
    \/ AnalysisWork(RequestOrder[1])
    \/ PostProvider
    \/ PostProviderAnswered

SpecRoutes == Init /\ [][NextRoutes]_vars

\* the hook and the backend that serves it
NextHook ==
    \/ HookMain
    \/ HookHealth
    \/ HookPost
    \/ HookAnswered
    \/ HookRequestFails
    \/ AnalyzeCode(HookRequest)
    \/ StagedWork(HookRequest)

\* one analysis together with requests on its issues and on its review
NextIssues ==
    \/ ReceiveRequest(RequestOrder[1])
    \/ AnalyzeCodeWith(RequestOrder[1], FixableReplies)
    \/ AnalysisWork(RequestOrder[1])
    \/ DeleteReview(1)
    \/ ResolveIssue
    \/ \E fx \in FixRequests :
         FixReceive(fx) \/ FixFind(fx) \/ FixRead(fx) \/ FixGenerate(fx) \/ FixUpdate(fx)

SpecIssues == Init /\ [][NextIssues]_vars

SpecHook == Init /\ [][NextHook]_vars

SpecDelete == Init /\ [][NextWithDelete]_vars

\* the AI service and its provider setting
ProviderInit ==
    InitAnalysis /\ InitProvider /\ QuietStandards /\ QuietParser /\ QuietClients

SpecProvider == ProviderInit /\ [][NextProvider]_vars

\* the coding standards API
StandardsInit ==
    InitAnalysis /\ QuietProvider /\ InitStandards /\ QuietParser /\ QuietClients

SpecStandards == StandardsInit /\ [][NextStandards]_vars

\* seed requests only, one after the other or overlapping
NextSeed ==
    \E sq \in StandardRequests :
        \/ ReceiveSeed(sq)
        \/ SeedFind(sq)
        \/ SeedCreate(sq)

SpecSeed == StandardsInit /\ [][NextSeed]_vars

\* the response parser
ParserInit ==
    InitAnalysis /\ QuietProvider /\ QuietStandards /\ InitParser /\ QuietClients

SpecParser == ParserInit /\ [][NextParser]_vars

----------------------------------------------------------------------------
(* Vocabulary of the properties *)

Range(seq) == {seq[i] : i \in 1..Len(seq)}

\* the issue rows of a review
IssuesOf(id) == {x \in issues : x.reviewId = id}

\* the handler of rq is between its first await and its response
InFlight(rq) == run[rq].pc \notin {"idle", "done"}

\* rq has parsed its diff and not yet answered
HasDiff(rq) == InFlight(rq) /\ run[rq].diff # <<>>

\* rq has left the loop over the files of its diff
LoopOver(rq) == HasDiff(rq) /\ run[rq].idx > Len(run[rq].diff)

\* the three reasons for which the loop skips a file
IsDeleted(file) == file.deleted
IsUnsupported(file) == ExtName(file.to) \notin supportedExtensions
IsMinimal(file) == Len(Trim(extractChangedCode(file))) < MinChangedLength
IsSkipped(file) == IsDeleted(file) \/ IsUnsupported(file) \/ IsMinimal(file)

\* the files of the diffs that the loop skips
SkippedFiles == {file \in UNION {Range(diff) : diff \in Diffs} : IsSkipped(file)}

\* the review of rq is the newest review of its user and repository
IsNewest(rq) == LatestReview(run[rq].key) = run[rq].review

----------------------------------------------------------------------------
(* C1: a review row is created IN_PROGRESS, its status changes at most
   once, only to COMPLETED or FAILED, and a COMPLETED or FAILED row never
   changes status again.  The code breaks this when two requests of the
   same user and repository overlap: the catch block of one request fails
   the newest row of the pair, which belongs to the other request, and
   that request later completes the failed row (or the other way round). *)
C1_StatusChangesOnce ==
    [][ /\ \A id \in 1..Len(reviews') :
             id > Len(reviews) => reviews'[id].status = "IN_PROGRESS"
        /\ \A id \in 1..Len(reviews) :
             reviews'[id].status # reviews[id].status
               => /\ reviews[id].status = "IN_PROGRESS"
                  /\ reviews'[id].status \in {"COMPLETED", "FAILED"} ]_vars

(* C2: on a COMPLETED review, criticalIssues, majorIssues and minorIssues
   are the numbers of its issue rows of severity CRITICAL, MAJOR and MINOR,
   and issuesFound is the number of all its issue rows, INFO included. *)
C2_CountersMatchIssueRows ==
    \A id \in 1..Len(reviews) :
        reviews[id].status = "COMPLETED" =>
            LET rows == IssuesOf(id)
                Of(sev) == Cardinality({x \in rows : x.severity = sev})
            IN  /\ reviews[id].criticalIssues = Of("CRITICAL")
                /\ reviews[id].majorIssues = Of("MAJOR")
                /\ reviews[id].minorIssues = Of("MINOR")
                /\ reviews[id].issuesFound = Cardinality(rows)
                /\ reviews[id].issuesFound
                     = Of("CRITICAL") + Of("MAJOR") + Of("MINOR") + Of("INFO")

\* a COMPLETED review with a CRITICAL and an INFO issue row: issuesFound 2,
\* criticalIssues 1, the other counters 0
C2_Witness ==
    \E id \in 1..Len(reviews) :
        /\ reviews[id].status = "COMPLETED"
        /\ {x.severity : x \in IssuesOf(id)} = {"CRITICAL", "INFO"}
        /\ reviews[id].issuesFound = 2
        /\ reviews[id].criticalIssues = 1
        /\ reviews[id].minorIssues = 0

(* C3: analyzeStagedChanges on a repository without staged and without
   modified files raises the "no changes" error and leaves the review
   table as it was: no step of such a call adds or changes a row.  The
   call adds no row, but its catch block looks up the newest review of the
   user and repository and, finding it IN_PROGRESS, sets it FAILED: a row
   of another request. *)
C3_NoChangesLeavesReviewsAlone ==
    [][ \A rq \in Requests :
          (run'[rq] # run[rq] /\ run'[rq].error = "no_changes")
            => reviews' = reviews ]_vars

\* the half of C3 that holds: the "no changes" call creates no row; every
\* row of the table was created by another request
NoChangesCreatesNoReview ==
    \A rq \in Requests :
        run[rq].error = "no_changes" =>
            /\ run[rq].kind = "staged"
            /\ run[rq].review = 0
            /\ run[rq].http \in {0, 500}
            /\ \A id \in 1..Len(reviews) :
                 \E other \in Requests \ {rq} : run[other].review = id

(* C4, as claimed: whenever analyzeStagedChanges raised after creating its
   review row and no other request exists, the row is FAILED when the
   route answers 500. *)
C4_Original ==
    \A rq \in Requests :
        ( /\ run[rq].kind = "staged"
          /\ run[rq].pc = "done"
          /\ run[rq].review # 0
          /\ run[rq].error # "none"
          /\ \A other \in Requests \ {rq} : run[other].pc = "idle" )
        => /\ run[rq].http = 500
           /\ reviews[run[rq].review].status = "FAILED"

(* C4, amended: if analyzeStagedChanges raises after creating its review
   row, the route answers 500 with the error; the row is FAILED by then
   provided it is the newest row of its user and repository and the
   lookup and the update of the catch block succeeded. *)
C4_FailedWhenHandlerSucceeds ==
    \A rq \in Requests :
        ( /\ run[rq].kind = "staged"
          /\ run[rq].pc = "done"
          /\ run[rq].review # 0
          /\ run[rq].error # "none" )
        => /\ run[rq].http = 500
           /\ (run[rq].handlerOk /\ IsNewest(rq)
                 => reviews[run[rq].review].status = "FAILED")

\* the final update failed, the catch block ran, and the row is FAILED
C4_Witness ==
    \E rq \in Requests :
        /\ run[rq].kind = "staged"
        /\ run[rq].pc = "done"
        /\ run[rq].error = "db_error"
        /\ run[rq].http = 500
        /\ run[rq].handlerOk
        /\ IsNewest(rq)
        /\ reviews[run[rq].review].status = "FAILED"

(* C5: once analyze-commit has answered, the review it created is not
   IN_PROGRESS, and "commit not found" is raised before any row is
   created.  analyzeCommit has no FAILED update in its catch block, so the
   first half fails for an empty or unparsable commit diff. *)
C5_CommitReviewNotLeftInProgress ==
    \A rq \in Requests :
        (run[rq].kind = "commit" /\ run[rq].pc = "done") =>
            /\ run[rq].error = "commit_not_found" => run[rq].review = 0
            /\ run[rq].review # 0
                 => reviews[run[rq].review].status # "IN_PROGRESS"

(* C6: if no file of the parsed diff passes the filters, the run leaves
   the loop with filesAnalyzed = 0 towards the FAILED update and raises
   "no supported files"; the row is FAILED from then on, is never
   COMPLETED, and no effort estimate is requested.  A run reaches the
   estimate and the final update only with filesAnalyzed > 0. *)
C6_NoFilesFailsReview ==
    \A rq \in Requests :
        /\ LoopOver(rq) /\ run[rq].filesAnalyzed = 0
             => /\ run[rq].pc \in {"nofiles", "catch", "catch_update"}
                /\ run[rq].estimateCalls = 0
                /\ reviews[run[rq].review].status # "COMPLETED"
        /\ run[rq].pc \in {"estimate", "complete"}
             => run[rq].filesAnalyzed > 0
        /\ run[rq].error = "no_supported_files"
             => /\ run[rq].review # 0
                /\ reviews[run[rq].review].status = "FAILED"
                /\ reviews[run[rq].review].filesAnalyzed = 0
                /\ run[rq].estimateCalls = 0
                /\ run[rq].http \in {0, 500}

\* analyze-commit answered 500 "no supported files" and its row is FAILED
C6_Witness ==
    \E rq \in Requests :
        /\ run[rq].kind = "commit"
        /\ run[rq].pc = "done"
        /\ run[rq].error = "no_supported_files"
        /\ run[rq].http = 500
        /\ reviews[run[rq].review].status = "FAILED"

(* C7: a file of the parsed diff that is deleted, of an unsupported
   extension, or of fewer than 10 characters of trimmed extracted content
   is never handed to the AI provider, is not counted in filesAnalyzed,
   and no issue row of the review has its path; after the loop
   filesAnalyzed is the number of files that pass the three filters. *)
C7_SkippedFilesLeaveNoTrace ==
    \A rq \in Requests :
        HasDiff(rq) =>
            LET diff == run[rq].diff
                passing == {i \in 1..Len(diff) : diff[i] \notin SkippedFiles}
            IN  /\ \A i \in 1..Len(diff) :
                     diff[i] \in SkippedFiles =>
                         /\ i \notin Range(run[rq].sent)
                         /\ \A x \in IssuesOf(run[rq].review) :
                              x.filePath # diff[i].to
                /\ run[rq].filesAnalyzed = Len(run[rq].sent)
                /\ run[rq].filesAnalyzed
                     = Cardinality({i \in passing : i <= run[rq].idx})
                /\ LoopOver(rq) => run[rq].filesAnalyzed = Cardinality(passing)
                /\ run[rq].pc = "complete"
                     => run[rq].filesAnalyzed = Cardinality(passing)

\* a diff of a skipped and an analysed file: after the loop one file is
\* counted, and the review has an issue row
C7_Witness ==
    \E rq \in Requests :
        /\ LoopOver(rq)
        /\ \E i \in 1..Len(run[rq].diff) : IsSkipped(run[rq].diff[i])
        /\ run[rq].filesAnalyzed = 1
        /\ run[rq].sent # <<>>
        /\ IssuesOf(run[rq].review) # {}

(* C8, as claimed: analyze-staged on one staged file a.js of content
   `var x = 1` answers with a COMPLETED review of filesAnalyzed 1,
   issuesFound 1, minorIssues 1 and an issue row of a.js at line 1. *)
C8_Original ==
    [][ \A rq \in Requests :
          ( /\ run[rq].kind = "staged"
            /\ run[rq].diff = <<FileAJs>>
            /\ run'[rq].pc = "done" )
          => /\ run'[rq].http = 200
             /\ reviews'[run[rq].review].status = "COMPLETED"
             /\ reviews'[run[rq].review].filesAnalyzed = 1
             /\ reviews'[run[rq].review].issuesFound = 1
             /\ reviews'[run[rq].review].minorIssues = 1
             /\ \E x \in issues' :
                  /\ x.reviewId = run[rq].review
                  /\ x.filePath = FileAJs.to
                  /\ x.lineNumber = 1 ]_vars

(* C8, amended: `var x = 1` is 9 characters, below the minimal length of
   10, so a.js is skipped: the provider is not called, the review row is
   set FAILED with filesAnalyzed 0 and issuesFound 0, no issue row is
   persisted, and analyze-staged answers 500 "no supported files". *)
C8_ShortFileFailsReview ==
    [][ \A rq \in Requests :
          ( /\ run[rq].kind = "staged"
            /\ run[rq].diff = <<FileAJs>>
            /\ run'[rq].pc = "done" )
          => /\ run'[rq].http = 500
             /\ run'[rq].error = "no_supported_files"
             /\ run[rq].sent = <<>>
             /\ reviews'[run[rq].review].status = "FAILED"
             /\ reviews'[run[rq].review].filesAnalyzed = 0
             /\ reviews'[run[rq].review].issuesFound = 0
             /\ \A x \in issues' : x.reviewId # run[rq].review ]_vars

\* the staged run on a.js has raised "no supported files": nothing was
\* sent to the provider and the row is FAILED
C8_Witness ==
    \E rq \in Requests :
        /\ run[rq].kind = "staged"
        /\ run[rq].diff = <<FileAJs>>
        /\ Len(Trim(extractChangedCode(FileAJs))) = 9
        /\ run[rq].pc = "catch"
        /\ run[rq].error = "no_supported_files"
        /\ run[rq].sent = <<>>
        /\ reviews[run[rq].review].status = "FAILED"

(* C9, as claimed: a run in which a call of the AI provider failed ends
   with its review FAILED. *)
C9_Original ==
    \A rq \in Requests :
        (run[rq].pc = "done" /\ run[rq].aiFailed # {})
            => reviews[run[rq].review].status = "FAILED"

(* C9, amended: a failed call of the AI provider is not retried and does
   not fail the review: the file stays counted in filesAnalyzed and gets
   no issue row, the only error the run can still raise is a database
   error of its final update, and otherwise the run answers 200 after
   writing the final update with filesAnalyzed > 0. *)
C9_ProviderFailureIsSwallowed ==
    \A rq \in Requests :
        run[rq].aiFailed # {} =>
            /\ run[rq].review # 0
            /\ run[rq].error \in {"none", "db_error"}
            /\ run[rq].pc # "nofiles"
            /\ HasDiff(rq) =>
                 /\ run[rq].aiFailed \subseteq Range(run[rq].sent)
                 /\ \A i, j \in 1..Len(run[rq].sent) :
                      i < j => run[rq].sent[i] < run[rq].sent[j]
                 /\ run[rq].filesAnalyzed >= Cardinality(run[rq].aiFailed)
                 /\ \A i \in run[rq].aiFailed :
                      \A x \in IssuesOf(run[rq].review) :
                          x.filePath # run[rq].diff[i].to
            /\ (run[rq].pc = "done" /\ run[rq].error = "none")
                 => /\ run[rq].http = 200
                    /\ reviews[run[rq].review].status # "IN_PROGRESS"
                    /\ reviews[run[rq].review].filesAnalyzed
                         >= Cardinality(run[rq].aiFailed)

\* the only provider call of a run failed, and the run answered 200 with
\* a COMPLETED review of one analysed file and no issue
C9_Witness ==
    \E rq \in Requests :
        /\ run[rq].pc = "done"
        /\ run[rq].aiFailed = {1}
        /\ run[rq].http = 200
        /\ reviews[run[rq].review].status = "COMPLETED"
        /\ reviews[run[rq].review].filesAnalyzed = 1
        /\ reviews[run[rq].review].issuesFound = 0

(* C10: a failed analysis of one file does not stop the run: the run
   leaves the loop only at the end of the diff, every later file that
   passes the filters is still handed to the provider, and the issue rows
   persisted for the other files stay in the table and are the issues the
   final update counts. *)
C10_RunContinuesAfterFailedFile ==
    \A rq \in Requests :
        (HasDiff(rq) /\ run[rq].aiFailed # {}) =>
            LET diff == run[rq].diff IN
            /\ run[rq].pc \notin {"analyze", "save"} => LoopOver(rq)
            /\ \A i \in run[rq].aiFailed :
                 \A j \in (i + 1)..Len(diff) :
                     (j <= run[rq].idx /\ ~IsSkipped(diff[j]))
                         => j \in Range(run[rq].sent)
            /\ {x.id : x \in IssuesOf(run[rq].review)}
                 = {run[rq].allIssues[k].id : k \in 1..Len(run[rq].allIssues)}
            /\ Cardinality(IssuesOf(run[rq].review)) = Len(run[rq].allIssues)

\* the analysis of the first file failed, the second file was still sent,
\* and its issue is about to be counted by the final update
C10_Witness ==
    \E rq \in Requests :
        /\ run[rq].pc = "complete"
        /\ run[rq].aiFailed = {1}
        /\ run[rq].sent = <<1, 2>>
        /\ Len(run[rq].allIssues) >= 1
        /\ \A x \in IssuesOf(run[rq].review) :
             x.filePath = run[rq].diff[2].to

(* C11: a failed write of one issue does not abort the batch: the step
   that fails only drops that issue, the remaining issues of the file are
   written next, the run goes on to the later files and to its final
   update, and the failed issue is no row of the review and is counted
   neither in issuesFound nor in a severity counter. *)
C11_FailedIssueIsSkipped ==
    [][ \A rq \in Requests :
          /\ run'[rq].rejected # run[rq].rejected /\ run'[rq].pc # "done"
               => /\ run[rq].pc = "save"
                  /\ issues' = issues
                  /\ run'[rq].allIssues = run[rq].allIssues
                  /\ run'[rq].pending = Tail(run[rq].pending)
                  /\ run'[rq].error = "none"
                  /\ IF run'[rq].pending # <<>>
                     THEN run'[rq].pc = "save" /\ run'[rq].idx = run[rq].idx
                     ELSE /\ run'[rq].pc \in {"analyze", "estimate", "complete"}
                          /\ run'[rq].idx
                               = NextAnalysed(run[rq].diff, run[rq].idx + 1)
          /\ run'[rq].rejected # <<>>
               => /\ Len(run'[rq].allIssues)
                       = Cardinality({x \in issues' : x.reviewId = run'[rq].review})
                  /\ \A x \in {x \in issues' : x.reviewId = run'[rq].review} :
                       <<x.filePath, x.title>> \notin Range(run'[rq].rejected)
                  /\ run'[rq].error \in {"none", "db_error"}
          /\ ( /\ run[rq].rejected # <<>>
               /\ run[rq].pc = "complete"
               /\ run'[rq].http = 200 )
               => LET row == reviews'[run[rq].review]
                      rows == IssuesOf(run[rq].review)
                  IN  /\ row.status = "COMPLETED"
                      /\ row.issuesFound = Cardinality(rows)
                      /\ row.criticalIssues + row.majorIssues + row.minorIssues
                           = Cardinality({x \in rows : x.severity # "INFO"})
                      /\ \A x \in rows : <<x.filePath, x.title>> \notin Range(run[rq].rejected) ]_vars

\* the write of the first issue of a file failed, the second issue of the
\* file was written, and the run is at its final update with one issue
C11_Witness ==
    \E rq \in Requests :
        /\ run[rq].pc = "complete"
        /\ run[rq].rejected = << <<run[rq].diff[1].to, "t2">> >>
        /\ Len(run[rq].allIssues) = 1
        /\ run[rq].allIssues[1].title = "t3"
        /\ run[rq].allIssues[1] \in issues

(* C12: aiService.estimateEffort is requested at most once in a run, only
   after the loop over the files and before the final update, for the
   issue rows persisted for the review, all of them; if the request raises
   estimatedEffort is half an hour per persisted issue; a run without
   persisted issues reaches its final update without a request and with
   estimatedEffort 0. *)
C12_OneEstimateAfterLastFile ==
    [][ \A rq \in Requests :
          /\ run'[rq].estimateCalls # run[rq].estimateCalls
               => /\ run[rq].estimateCalls = 0
                  /\ run'[rq].estimateCalls = 1
                  /\ run[rq].pc = "estimate"
                  /\ run'[rq].pc = "complete"
                  /\ LoopOver(rq)
                  /\ run[rq].allIssues # <<>>
                  /\ {x.id : x \in IssuesOf(run[rq].review)}
                       = {run[rq].allIssues[k].id : k \in 1..Len(run[rq].allIssues)}
                  /\ run'[rq].allIssues = run[rq].allIssues
                  /\ (issues' = issues /\ dbFaults' = dbFaults)
                       => run'[rq].estimatedEffort = Len(run[rq].allIssues)
          /\ run'[rq].pc = "complete"
               => /\ run'[rq].estimateCalls
                       = IF run'[rq].allIssues = <<>> THEN 0 ELSE 1
                  /\ run'[rq].allIssues = <<>> => run'[rq].estimatedEffort = 0
          /\ run'[rq].pc \in {"status", "show", "create", "diff", "analyze",
                              "save", "nofiles", "estimate"}
               => run'[rq].estimateCalls = 0
          /\ (run[rq].pc = "complete" /\ run'[rq].http = 200)
               => reviews'[run[rq].review].estimatedEffort
                    = run[rq].estimatedEffort ]_vars

\* the estimate request raised for a run with two persisted issues: the
\* run is at its final update with an estimate of two half hours
C12_Witness ==
    \E rq \in Requests :
        /\ run[rq].pc = "complete"
        /\ run[rq].estimateCalls = 1
        /\ Len(run[rq].allIssues) = 2
        /\ run[rq].estimatedEffort = 2
        /\ \A x \in IssuesOf(run[rq].review) : x.effort = 0
        /\ dbFaults = 0

(* C13: the files of one run are processed one after the other in diff
   order: a call of the provider starts only when the call for the
   previous file has returned or failed and every issue of that file has
   been written or skipped, and while a call is in flight no issue of the
   run is waiting to be written. *)
C13_FilesAreSequential ==
    [][ \A rq \in Requests :
          /\ Len(run'[rq].sent) > Len(run[rq].sent)
               => /\ Len(run'[rq].sent) = Len(run[rq].sent) + 1
                  /\ \A k \in 1..Len(run[rq].sent) :
                       /\ run'[rq].sent[k] = run[rq].sent[k]
                       /\ run[rq].sent[k] < run'[rq].sent[Len(run'[rq].sent)]
                  /\ \/ run[rq].pc = "diff" /\ run[rq].sent = <<>>
                     \/ run[rq].pc = "analyze"
                     \/ run[rq].pc = "save" /\ Len(run[rq].pending) = 1
                  /\ run'[rq].pc = "analyze"
          /\ run'[rq].pc = "analyze"
               => /\ run'[rq].pending = <<>>
                  /\ run'[rq].sent # <<>>
                  /\ run'[rq].idx = run'[rq].sent[Len(run'[rq].sent)]
          /\ run'[rq].pc = "save"
               => /\ run'[rq].pending # <<>>
                  /\ run'[rq].idx = run'[rq].sent[Len(run'[rq].sent)] ]_vars

\* the call for the second file is in flight after the issue of the first
\* file was written
C13_Witness ==
    \E rq \in Requests :
        /\ run[rq].pc = "analyze"
        /\ run[rq].sent = <<1, 2>>
        /\ run[rq].pending = <<>>
        /\ \E x \in IssuesOf(run[rq].review) :
             x.filePath = run[rq].diff[1].to

\* C14: setProvider leaves the calls that are in flight alone: a call of
\* analyzeCode, generateFix or estimateEffort makes its health check and
\* its request on the service of the provider that was selected when the
\* call started, so a call finished before a switch and a call started
\* after it use the services of the two providers.
C14_CallKeepsItsProvider ==
    [][ /\ provider' # provider => calls' = calls
        /\ \A c \in CallIds :
             LET call == calls'[c] IN
             /\ call.pc # "idle" =>
                  /\ call.op \in AiOperations
                  /\ call.service = getService(call.startedOn)
                  /\ call.checkedOn = call.service
             /\ call.pc = "request" \/ call.outcome \in {"returned", "raised"} =>
                  call.requestedOn = call.service
             /\ call.outcome = "unavailable" => call.requestedOn = "none" ]_vars

\* the first call ran on Ollama; the second started on Gemini and is
\* still waiting for its request while the provider is Ollama again
C14_Witness ==
    /\ calls["call1"].pc = "done"
    /\ calls["call1"].outcome = "returned"
    /\ calls["call1"].startedOn = "ollama"
    /\ calls["call1"].requestedOn = "llmService"
    /\ calls["call2"].pc = "request"
    /\ calls["call2"].startedOn = "gemini"
    /\ calls["call2"].requestedOn = "geminiService"
    /\ provider = "ollama"

\* C15: POST /api/ai/provider with "ollama" or "gemini" selects that
\* provider and GET /api/ai/provider returns the selected one; a POST
\* with a missing or any other value answers 400 and leaves the provider
\* as it was; a provider that is one of the two stays one of the two.
C15_ProviderIsOneOfTwo ==
    [][ /\ GetProvider => api'.get = provider
        /\ PostProvider /\ api'.body \in ValidProviders =>
             provider' = api'.body /\ api'.status # 400
        /\ PostProvider /\ api'.body \notin ValidProviders =>
             provider' = provider /\ api'.status = 400 /\ api'.post = "done"
        /\ provider \in ValidProviders => provider' \in ValidProviders ]_vars

\* after a switch from Ollama to Gemini was read back, a POST of
\* "openai" was refused
C15_Witness ==
    /\ switched.from = "ollama"
    /\ switched.times = 1
    /\ provider = "gemini"
    /\ api.get = "gemini"
    /\ api.body = "openai"
    /\ api.status = 400

\* C16: no request of the standards API modifies or deletes a row with
\* isBuiltIn = true: PUT and DELETE on such a row answer 403 and leave
\* the table as it is, the rows POST creates have isBuiltIn = false, and
\* no request changes the isBuiltIn of a row.
C16_BuiltInStandardsStay ==
    [][ /\ \A row \in standards : row.isBuiltIn => row \in standards'
        /\ \A row \in standards, new \in standards' :
             new.id = row.id => new.isBuiltIn = row.isBuiltIn
        /\ \A sq \in StandardRequests :
             /\ /\ stdRun[sq].pc \in {"put_find", "delete_find"}
                /\ stdRun'[sq] # stdRun[sq]
                /\ \E row \in FindStandardById(stdRun[sq].id) : row.isBuiltIn
                => /\ stdRun'[sq].pc = "done"
                   /\ stdRun'[sq].http = 403
                   /\ standards' = standards
             /\ stdRun[sq].op = "post" /\ stdRun'[sq] # stdRun[sq]
                => \A row \in standards' \ standards : ~row.isBuiltIn ]_vars

\* a PUT and a DELETE on the same built-in standard were both answered
\* 403 and the row is still in the table
C16_Witness ==
    \E row \in standards :
        /\ row.isBuiltIn
        /\ stdRun["std1"].pc = "done" /\ stdRun["std1"].op = "put"
        /\ stdRun["std1"].id = row.id /\ stdRun["std1"].http = 403
        /\ stdRun["std2"].pc = "done" /\ stdRun["std2"].op = "delete"
        /\ stdRun["std2"].id = row.id /\ stdRun["std2"].http = 403

\* the text has no "{" that a "}" follows
NoBracePair(text) ==
    ~\E i, j \in 1..Len(text) : i < j /\ text[i] = "{" /\ text[j] = "}"

\* C17: for a text without any JSON object (no brace pair, hence no
\* fenced block either) and for a text whose extracted JSON does not
\* parse, parseAnalysisResponse returns no issues, four zero counts and
\* four empty recommendation lists, and does not raise.
C17_NoJsonGivesEmptyResult ==
    result.parsed /\ ( \/ NoBracePair(response.text)
                       \/ JsonKind(response.text) = "invalid" )
        => result.value = EmptyResult

\* prose around braces that hold no JSON was parsed to the empty result
C17_Witness ==
    /\ result.parsed
    /\ response.text = <<"x", "{", "x", "}", "x">>
    /\ result.value = EmptyResult

\* C18: for a JSON object whose `issues` is not a list,
\* parseAnalysisResponse returns no issues, four zero counts and four
\* empty recommendation lists, whatever summary and recommendations the
\* object carries.
C18_NotAListGivesEmptyResult ==
    /\ result.parsed
    /\ JsonKind(response.text) = "object"
    /\ ~response.object.issuesIsList
    => result.value = EmptyResult

\* a candidate carries the five required fields, the strings not empty
HasAllFive(candidate) ==
    /\ ~candidate.isNull
    /\ IssueFields \subseteq candidate.has
    /\ candidate.title # "" /\ candidate.description # ""
    /\ candidate.severity # "" /\ candidate.category # ""

\* C19: the issues parseAnalysisResponse returns are exactly the
\* candidates that carry title, description, severity, category and
\* line, in their order, each with its lineEnd or else its line as
\* lineEnd and with autoFixable false unless the candidate says true.
C19_KeepsExactlyCompleteIssues ==
    /\ result.parsed
    /\ JsonKind(response.text) = "object"
    /\ response.object.issuesIsList
    => LET complete == SelectSeq(response.object.issues, HasAllFive)
           kept == result.value.issues
       IN  /\ Len(kept) = Len(complete)
           /\ \A i \in 1..Len(kept) :
                /\ kept[i].title = complete[i].title
                /\ kept[i].description = complete[i].description
                /\ kept[i].severity = complete[i].severity
                /\ kept[i].category = complete[i].category
                /\ kept[i].lineEnd = IF "lineEnd" \in complete[i].has
                                     THEN complete[i].lineEnd ELSE kept[i].line
                /\ kept[i].autoFixable = ( /\ "autoFixable" \in complete[i].has
                                           /\ complete[i].autoFixable )

\* C20: every issue row references a review row that exists, also while
\* a review is deleted during its analysis: the delete takes the issues
\* of the review with it, and afterwards the analysis creates no issue
\* row for the review and writes nothing to it, so the review stays
\* deleted.
C20_IssuesReferenceReviews ==
    [][ /\ \A x \in issues' :
             x.reviewId \in 1..Len(reviews') /\ x.reviewId \notin deletedReviews'
        /\ deletedReviews \subseteq deletedReviews'
        /\ \A id \in deletedReviews :
             id \in 1..Len(reviews') /\ reviews'[id] = reviews[id] ]_vars

\* the review was deleted between the two issues of a file: the first
\* was saved and went with the review, the create of the second failed
C20_Witness ==
    LET rr == run[RequestOrder[1]] IN
    /\ rr.review \in deletedReviews
    /\ dbFaults = 0
    /\ Len(rr.allIssues) = 1 /\ rr.allIssues[1].title = "t2"
    /\ Len(rr.rejected) = 1 /\ rr.rejected[1][2] = "t3"
    /\ issues = {}

\* the lists of one category in `returned`, one after the other
RECURSIVE Concatenated(_, _)
Concatenated(returned, category) ==
    IF returned = <<>> THEN <<>>
    ELSE Head(returned).recs[category] \o Concatenated(Tail(returned), category)

\* C24: the recommendations stored with COMPLETED are, for each of
\* documentation, testing, architecture and cicd, the lists returned for
\* the files whose analysis succeeded, concatenated in file order with
\* duplicates kept; files that were skipped or whose analysis failed
\* contribute nothing.
C24_RecommendationsAreConcatenated ==
    [][ \A rq \in Requests :
          LET rr == run[rq] IN
          /\ rr.pc = "complete"
          /\ rr.review \in 1..Len(reviews')
          /\ reviews'[rr.review].status = "COMPLETED"
          /\ reviews[rr.review].status # "COMPLETED"
          => LET succeeded == SelectSeq(rr.sent, LAMBDA i : i \notin rr.aiFailed)
                 returned == rr.fileRecommendations
             IN  /\ [i \in 1..Len(returned) |-> returned[i].file] = succeeded
                 /\ reviews'[rr.review].recommendations =
                      << [category \in DOMAIN NoRecommendations |->
                             Concatenated(returned, category)] >> ]_vars

\* two files were analysed and both replies recommended "doc1"
C24_Witness ==
    \E id \in 1..Len(reviews) :
        /\ reviews[id].status = "COMPLETED"
        /\ reviews[id].filesAnalyzed = 2
        /\ reviews[id].recommendations[1].documentation = <<"doc1", "doc1">>
        /\ reviews[id].recommendations[1].cicd = <<"ci1">>

\* C21: once the review of an issue is COMPLETED, a step changes at most
\* the resolved and the fixCode of the issue: its severity, file path,
\* line range, title, description and effort are what they were, and the
\* row stays unless the review is deleted and takes all its issues with
\* it; hence the counters of a COMPLETED review equal the numbers of its
\* issues of each severity after every step.
C21_CompletedIssuesKeepTheirData ==
    [][ /\ \A x \in issues :
             x.reviewId \in 1..Len(reviews) /\ reviews[x.reviewId].status = "COMPLETED"
             => \/ \E y \in issues' :
                     [y EXCEPT !.resolved = x.resolved, !.fixCode = x.fixCode] = x
                \/ /\ x.reviewId \in deletedReviews'
                   /\ \A y \in issues' : y.reviewId # x.reviewId
        /\ \A id \in 1..Len(reviews') :
             reviews'[id].status = "COMPLETED" /\ id \notin deletedReviews'
             => LET Of(sev) == Cardinality({y \in issues' :
                                   y.reviewId = id /\ y.severity = sev})
                IN  /\ reviews'[id].criticalIssues = Of("CRITICAL")
                    /\ reviews'[id].majorIssues = Of("MAJOR")
                    /\ reviews'[id].minorIssues = Of("MINOR") ]_vars

\* an issue of a COMPLETED review was resolved and has a fix stored
C21_Witness ==
    \E x \in issues :
        /\ reviews[x.reviewId].status = "COMPLETED"
        /\ x.resolved /\ x.fixCode = "patch2"
        /\ x.severity = "CRITICAL" /\ reviews[x.reviewId].criticalIssues = 1
        /\ fixRun["fix1"].pc = "done" /\ fixRun["fix1"].http = 200

\* C22: an analyze-staged request without repositoryPath or userId, and
\* an analyze-commit request without repositoryPath, commitHash or
\* userId, is answered 400 and changes nothing: no review row is
\* created, no issue row, and the provider setting stays as it is even
\* if the body names another valid provider.
C22_MissingFieldsChangeNothing ==
    [][ \A rq \in Requests :
          /\ run[rq].pc = "idle"
          /\ run'[rq].pc = "done"
          /\ run'[rq].error = "required_fields"
          => /\ run'[rq].http = 400
             /\ reviews' = reviews /\ issues' = issues
             /\ provider' = provider /\ switched' = switched ]_vars

\* a request that lacked a required field and named the other provider
\* has been answered; no review exists and the provider is the initial one
C22_Witness ==
    \E rq \in Requests :
        /\ run[rq].pc = "done" /\ run[rq].http = 400
        /\ run[rq].error = "required_fields"
        /\ run[rq].bodyProvider = "gemini"
        /\ provider = "ollama" /\ switched.times = 0
        /\ reviews = <<>>

\* C26: the provider field of a successful analyze response names the
\* provider that served every AI call of that review, also when the
\* provider is switched while the analysis runs.  The code breaks this:
\* the response reads aiService.getProvider() when it is written, each AI
\* call reads the provider when it starts.
C26_ResponseNamesServingProvider ==
    \A rq \in Requests :
        run[rq].pc = "done" /\ run[rq].http = 200
        => \A service \in run[rq].servedBy :
             service = getService(run[rq].responseProvider)

\* C27: an analyze request whose body names a valid provider other than
\* the active one sets the process-wide provider to it before the
\* analysis starts, and no later step of the request, whether it
\* succeeds or fails, changes the provider again.
C27_AnalyzeSwitchIsPermanent ==
    [][ \A rq \in Requests :
          /\ run[rq].pc = "idle" /\ run'[rq].pc \notin {"idle", "done"}
             /\ run'[rq].bodyProvider \notin {"", provider}
             => provider' = run'[rq].bodyProvider
          /\ run[rq].pc # "idle" /\ run'[rq] # run[rq]
             => provider' = provider ]_vars

\* a request that switched from ollama to gemini has failed and been
\* answered 500; gemini is still the provider
C27_Witness ==
    \E rq \in Requests :
        /\ run[rq].pc = "done" /\ run[rq].http = 500
        /\ run[rq].bodyProvider = "gemini"
        /\ provider = "gemini" /\ switched.times = 1

\* the hook went on to runCodeReview
RanCodeReview == ~hook.skip /\ hook.staged

\* C23 as stated: of a hook that went on to the code review, exit code
\* 1 means that the health request failed or was not answered 200, or
\* that analyze-staged was answered with another status than 200, or
\* that the review has critical issues; in every other case the exit
\* code is 0.
C23_Original ==
    hook.pc = "exited" /\ RanCodeReview
    => ( hook.exit = 1 <=>
           \/ hook.health # "ok"
           \/ hook.answer = "answered" /\ hook.statusCode # 200
           \/ hook.answer = "answered" /\ hook.criticalIssues > 0 )

\* C23: the hook exits 0 without contacting the backend if
\* SKIP_CODE_REVIEW is "true" or nothing is staged.  Otherwise it exits
\* 1 if the health request fails or is not answered 200, if the
\* analyze-staged request fails or is answered with another status than
\* 200, or if the review of the response has critical issues, and 0 in
\* every other case, major and minor issues included.
C23_HookExitCode ==
    hook.pc = "exited"
    => /\ hook.exit \in {0, 1}
       /\ ~RanCodeReview => hook.exit = 0 /\ ~hook.contacted
       /\ RanCodeReview
          => ( hook.exit = 1 <=>
                 \/ hook.health # "ok"
                 \/ hook.answer = "failed"
                 \/ hook.answer = "answered" /\ hook.statusCode # 200
                 \/ hook.answer = "answered" /\ hook.criticalIssues > 0 )

\* the review of the response has a major issue and no critical one,
\* and the hook let the commit pass
C23_Witness ==
    /\ hook.pc = "exited" /\ hook.exit = 0
    /\ hook.answer = "answered" /\ hook.statusCode = 200
    /\ \E id \in 1..Len(reviews) :
         reviews[id].majorIssues > 0 /\ reviews[id].criticalIssues = 0

\* C30: a staged analysis whose diff holds no file that passes the
\* filters (deleted files, unsupported extensions, changes shorter than
\* 10 characters) is on its way to the error "No supported files found
\* to analyze"; the route answers it with 500, and the hook that
\* receives this answer exits 1, although no issue was reported.
C30_NoFilesBlocksCommit ==
    LET rr == run[HookRequest] IN
    /\ rr.diff # <<>> /\ (\A i \in 1..Len(rr.diff) : rr.diff[i] \in SkippedFiles)
       => /\ rr.pc \in {"nofiles", "catch", "catch_update"}
          /\ rr.pc # "nofiles" => rr.error = "no_supported_files"
    /\ rr.pc = "done" /\ rr.error = "no_supported_files"
       => /\ rr.http = 500
          /\ hook.pc = "exited" => hook.exit = 1

\* the hook received the 500 for a diff without supported files and
\* exited 1; no issue row exists
C30_Witness ==
    /\ run[HookRequest].pc = "done"
    /\ run[HookRequest].error = "no_supported_files"
    /\ hook.pc = "exited" /\ hook.exit = 1
    /\ hook.answer = "answered" /\ hook.statusCode = 500
    /\ issues = {}

\* C25: when analyze requests of the same user and repository path
\* overlap, the failure handling of a request (the FAILED update for no
\* surviving file, and the lookup and FAILED update of the catch block)
\* changes no review row but the one the request created.  The code
\* breaks this: the catch block fails the newest IN_PROGRESS row of the
\* user and repository path, which another running request may own.
C25_FailureTouchesOwnReview ==
    [][ \A rq \in Requests :
          /\ run[rq].pc \in {"nofiles", "catch", "catch_update"}
          /\ run'[rq] # run[rq]
          => \A id \in 1..Len(reviews) :
               reviews'[id] # reviews[id] => id = run[rq].review ]_vars

\* every built-in name has its row
IsSeeded == \A i \in 1..Len(BuiltInNames) : FindStandardByName(BuiltInNames[i]) # {}

\* C28: seeding is idempotent.  No two standards ever share a name,
\* whether the seed requests run one after the other or overlap; a seed
\* request that was answered 200 leaves exactly one standard for every
\* built-in name; once every built-in name has its row, no step of a
\* seed request creates a row or adds to the number of created rows it
\* reports, and no lookup is followed by a create, so a request received
\* then reports zero; and no step of a seed request modifies or removes
\* a row that exists.
C28_SeedIsIdempotent ==
    [][ /\ \A x, y \in standards' : x.name = y.name => x = y
        /\ standards \subseteq standards'
        /\ \A sq \in StandardRequests :
             /\ stdRun'[sq].op = "seed" /\ stdRun'[sq].http = 200
                => \A i \in 1..Len(BuiltInNames) :
                     Cardinality({row \in standards' : row.name = BuiltInNames[i]}) = 1
             /\ IsSeeded
                => /\ standards' = standards
                   /\ stdRun'[sq].created <= stdRun[sq].created
                   /\ stdRun[sq].pc = "seed_find"
                      => stdRun'[sq].pc # "seed_create" ]_vars

\* the first seed created both built-in standards, the second, run after
\* it, created none
C28_Witness ==
    /\ stdRun["std1"].pc = "done" /\ stdRun["std1"].http = 200
    /\ stdRun["std1"].created = 2
    /\ stdRun["std2"].pc = "done" /\ stdRun["std2"].http = 200
    /\ stdRun["std2"].created = 0
    /\ Cardinality(standards) = 2

\* C29: a COMPLETED review has filesAnalyzed >= 1 and issuesFound at
\* least the sum of its three severity counters; an IN_PROGRESS or
\* FAILED review has filesAnalyzed, issuesFound and the three severity
\* counters equal to 0.  The code breaks the second half when two
\* requests of one user and repository overlap: the catch block of one
\* sets the row the other has completed, counters written, to FAILED.
C29_CountersFollowStatus ==
    \A id \in 1..Len(reviews) :
        LET r == reviews[id] IN
        /\ r.status = "COMPLETED"
             => /\ r.filesAnalyzed >= 1
                /\ r.issuesFound >= r.criticalIssues + r.majorIssues + r.minorIssues
        /\ r.status \in {"IN_PROGRESS", "FAILED"}
             => /\ r.filesAnalyzed = 0 /\ r.issuesFound = 0
                /\ r.criticalIssues = 0 /\ r.majorIssues = 0
                /\ r.minorIssues = 0

====
